---- MODULE Spec2Model ----
(***************************************************************************)
(* Model of the BookStack sync client: the App component's event handlers  *)
(* (src/unnamed/part_006, the same handlers as src/src/App.tsx) and the    *)
(* SpringBootApi gateway (src/src/services/springBootApi.ts).              *)
(*                                                                         *)
(* Execution model: one JavaScript thread.  A handler runs without         *)
(* interruption up to its next await on a network request; React applies   *)
(* the state updates queued so far before the next user event or network   *)
(* completion is handled.  Each action below is one such run.  An async    *)
(* handler that is suspended at an await is a record in "tasks"; it keeps   *)
(* the values its closure captured from the render in which it started.    *)
(***************************************************************************)
EXTENDS Integers, Sequences, FiniteSets, TLC

\* ---------------------------------------------------------------- bounds
NumBooks == 2          \* book identifiers are 1..NumBooks (per instance)
MaxTasks == 2          \* batch handlers suspended at an await at one time
MaxLoads == 2          \* list/destroy requests of one kind in flight at one time
MaxPage == 4           \* page numbers the pagination buttons are followed to
LongList == 31         \* length of the long source list of the pagination scenario

BookIds == 1..NumBooks

VARIABLES
  books,                        \* useState<Book[]>: source list (sequence of ids)
  destinationBooks,             \* useState<Book[]>: destination list
  selectedBookIds,              \* useState<number[]>
  selectedDestinationBookIds,   \* useState<number[]>
  loading,                      \* useState(false): the busy flag
  error,                        \* setError of the last step ("" is null; how long the
                                \* banner stays is not modelled, nothing reads it)
  success,                      \* setSuccess of the last step (<<>> is null), likewise
  syncProgress,                 \* useState<{[key:number]:string}>
  deleteStatus,                 \* useState<{[key:number]:string}>
  activeTab,                    \* 'books' | 'manage' | 'config'
  bookToDelete,                 \* null ("null") or the id -1 marker ("multiple")
  showDestroyConfirm,           \* useState(false)
  destroyStatus,                \* null ("") | 'Destroying...' | 'Destroyed' | 'Failed'
  sessionStorage,               \* the item under CONFIG_SESSION_STORAGE_KEY: <<>> or <<cfg>>
  tasks,                        \* the handleSync / confirmDeleteMultipleBooks runs that
                                \* are suspended at an await, oldest first
  srcLoads,                     \* listBooks requests in flight, oldest first: the list each will answer
  dstLoads,                     \* listDestinationBooks requests in flight, likewise
  destroys,                     \* destroy requests in flight
  searchQuery,                  \* useState(''): the search text
  currentPage,                  \* useState(1)
  sortOption,                   \* 'name' | 'created_at' | 'updated_at'
  sortDirection,                \* 'asc' | 'desc'
  language,                     \* 'all' | 'english' | 'chinese'
  syncStatus,                   \* 'all' | 'in-destination' | 'syncing' | 'not-synced'
  filteredBooks,                \* the value the filteredBooks memo holds (Book[])
  finished,                     \* history: the batch run that returned in the last step
  settled,                      \* history: the list request that completed in the last step
  gw                            \* gateway call under observation (gateway specification)

uiVars == <<books, destinationBooks, selectedBookIds, selectedDestinationBookIds,
            loading, error, success, syncProgress, deleteStatus, activeTab,
            bookToDelete, showDestroyConfirm, destroyStatus>>
netVars == <<tasks, srcLoads, dstLoads, destroys>>
viewVars == <<searchQuery, currentPage, sortOption, sortDirection, language, syncStatus,
              filteredBooks>>
vars == <<uiVars, netVars, viewVars, sessionStorage, finished, settled, gw>>

\* ---------------------------------------------------------------- helpers
Range(s) == {s[i] : i \in 1..Len(s)}

\* s.filter(x => keep(x))
RECURSIVE FilterSeq(_, _)
FilterSeq(s, keepSet) ==
  IF s = <<>> THEN <<>>
  ELSE IF Head(s) \in keepSet THEN <<Head(s)>> \o FilterSeq(Tail(s), keepSet)
       ELSE FilterSeq(Tail(s), keepSet)

\* { ...prev, [k]: v }
Put(m, k, v) == [x \in (DOMAIN m) \cup {k} |-> IF x = k THEN v ELSE m[x]]

\* m[k] where a missing key reads as undefined ("")
Get(m, k) == IF k \in DOMAIN m THEN m[k] ELSE ""

EmptyMap == [x \in {} |-> ""]

\* ids.reduce((acc, id) => { acc[id] = 'Pending'; return acc }, {})
InitialStatus(ids) == [x \in Range(ids) |-> "Pending"]

\* ================================================================ gateway
\* src/src/services/springBootApi.ts

SPRING_BOOT_API_URL == "/api/sync"
DEBUG_API_URL == "/api/debug"
API_TIMEOUT == 300000

SourceFields == {"sourceBaseUrl", "sourceTokenId", "sourceTokenSecret"}
DestinationFields == {"destinationBaseUrl", "destinationTokenId", "destinationTokenSecret"}

\* BookStackConfigDTO: six strings; a field is either blank or holds a value
\* that names the field, so that a header carrying the wrong field shows.
Configs ==
  [sourceBaseUrl : {"", "src-url"}, sourceTokenId : {"", "src-id"},
   sourceTokenSecret : {"", "src-secret"},
   destinationBaseUrl : {"", "dst-url"}, destinationTokenId : {"", "dst-id"},
   destinationTokenSecret : {"", "dst-secret"}]

\* JavaScript truthiness of a string
Truthy(v) == v # "" /\ v # "undefined"

\* the properties of a BookStackConfigDTO, in declaration order
ConfigKeys ==
  <<"sourceBaseUrl", "sourceTokenId", "sourceTokenSecret",
    "destinationBaseUrl", "destinationTokenId", "destinationTokenSecret">>

\* JSON.stringify(config): the text, as the sequence of its "key": value members
JSONstringify(config) == [i \in 1..Len(ConfigKeys) |-> <<ConfigKeys[i], config[ConfigKeys[i]]>>]

\* JSON.parse(text): the object with the members of the text
JSONparse(text) ==
  [k \in {text[i][1] : i \in 1..Len(text)} |->
     text[CHOOSE i \in 1..Len(text) : text[i][1] = k][2]]

\* getConfig: configJson ? JSON.parse(configJson) : null   (<<>> is null, and
\* is what getItem returns while nothing is stored)
getConfig(storage) == IF storage = <<>> THEN <<>> ELSE <<JSONparse(storage[1])>>

\* saveConfig with the token id written where the token secret belongs
saveConfigSwapsToken(config) ==
  <<JSONstringify([config EXCEPT !.sourceTokenSecret = config.sourceTokenId])>>

\* saveConfig: sessionStorage.setItem(KEY, JSON.stringify(config))
saveConfig(config) == <<JSONstringify(config)>>

\* an Error carrying a message, as the sequence of the message's parts
Err(parts) == [axios |-> FALSE, hasResponse |-> FALSE, hasRequest |-> FALSE,
               status |-> "", message |-> parts,
               data |-> [message |-> "undefined", error |-> "undefined", status |-> "undefined"]]

\* the errors apiClient can throw once a request was attempted
AxiosErrors ==
  [axios : {TRUE}, hasResponse : BOOLEAN, hasRequest : BOOLEAN,
   status : {"500"}, message : {<<"axios-message">>},
   data : [message : {"undefined", "", "msg"}, error : {"undefined", "", "err"},
           status : {"undefined", "", "st"}]]

\* handleError with the body's status read before its error field
handleErrorStatusFirst(e) ==
  IF e.axios
  THEN IF e.hasResponse
       THEN LET errorMessage ==
                  IF Truthy(e.data.message) THEN <<e.data.message>>
                  ELSE IF Truthy(e.data.status) THEN <<e.data.status>>
                  ELSE IF Truthy(e.data.error) THEN <<e.data.error>>
                  ELSE e.message
            IN Err(<<"API Error: ", e.status, " - ">> \o errorMessage)
       ELSE IF e.hasRequest
            THEN Err(<<"No response received from server">>)
            ELSE Err(<<"Request Error: ">> \o e.message)
  ELSE e

\* handleError(error): never     (the value is the error it throws)
handleError(e) ==
  IF e.axios
  THEN IF e.hasResponse
       THEN LET errorMessage ==
                  IF Truthy(e.data.message) THEN <<e.data.message>>
                  ELSE IF Truthy(e.data.error) THEN <<e.data.error>>
                  ELSE IF Truthy(e.data.status) THEN <<e.data.status>>
                  ELSE e.message
            IN Err(<<"API Error: ", e.status, " - ">> \o errorMessage)
       ELSE IF e.hasRequest
            THEN Err(<<"No response received from server">>)
            ELSE Err(<<"Request Error: ">> \o e.message)
  ELSE e

SourceHeaders(c) ==
  [h \in {"X-Source-Url", "X-Source-Token", "X-Source-Token-Id"} |->
     CASE h = "X-Source-Url" -> c.sourceBaseUrl
       [] h = "X-Source-Token" -> c.sourceTokenSecret
       [] h = "X-Source-Token-Id" -> c.sourceTokenId]

DestinationHeaders(c) ==
  [h \in {"X-Destination-Url", "X-Destination-Token", "X-Destination-Token-Id"} |->
     CASE h = "X-Destination-Url" -> c.destinationBaseUrl
       [] h = "X-Destination-Token" -> c.destinationTokenSecret
       [] h = "X-Destination-Token-Id" -> c.destinationTokenId]

\* headers: ApiHeaders = {} followed by assignments
Merge(f, g) == [h \in (DOMAIN f) \cup (DOMAIN g) |-> IF h \in DOMAIN g THEN g[h] ELSE f[h]]
NoHeaders == [h \in {} |-> ""]

SourceIncomplete(c) ==
  ~Truthy(c.sourceBaseUrl) \/ ~Truthy(c.sourceTokenSecret) \/ ~Truthy(c.sourceTokenId)
DestinationIncomplete(c) ==
  ~Truthy(c.destinationBaseUrl) \/ ~Truthy(c.destinationTokenSecret)
     \/ ~Truthy(c.destinationTokenId)

\* The part of a gateway method before its first network await: either the
\* error thrown inside the try block or the request handed to apiClient.
Throw(parts) == [thrown |-> <<Err(parts)>>, request |-> <<>>]
Send(method, url, headers) ==
  [thrown |-> <<>>,
   request |-> <<[method |-> method, url |-> url, headers |-> headers,
                  timeout |-> API_TIMEOUT]>>]

listBooks(storage) ==
  LET config == getConfig(storage) IN
  IF config = <<>> THEN Throw(<<"Configuration is missing">>)
  ELSE IF SourceIncomplete(config[1]) THEN Throw(<<"Source credentials are incomplete">>)
  ELSE Send("GET", <<SPRING_BOOT_API_URL, "/books">>, SourceHeaders(config[1]))

getBook(storage, id) ==
  LET config == getConfig(storage) IN
  IF config = <<>> THEN Throw(<<"Configuration is missing">>)
  ELSE IF SourceIncomplete(config[1]) THEN Throw(<<"Source credentials are incomplete">>)
  ELSE Send("GET", <<SPRING_BOOT_API_URL, "/books/", id>>, SourceHeaders(config[1]))

syncBook(storage, sourceBookId) ==
  LET config == getConfig(storage) IN
  IF config = <<>> THEN Throw(<<"Configuration is missing">>)
  ELSE IF SourceIncomplete(config[1]) \/ DestinationIncomplete(config[1])
       THEN Throw(<<"Source or destination credentials are incomplete">>)
  ELSE Send("POST", <<SPRING_BOOT_API_URL, "/books/", sourceBookId>>,
            Merge(SourceHeaders(config[1]), DestinationHeaders(config[1])))

syncBooks(storage) ==
  LET config == getConfig(storage) IN
  IF config = <<>> THEN Throw(<<"Configuration is missing">>)
  ELSE IF SourceIncomplete(config[1]) \/ DestinationIncomplete(config[1])
       THEN Throw(<<"Source or destination credentials are incomplete">>)
  ELSE Send("POST", <<SPRING_BOOT_API_URL, "/books">>,
            Merge(SourceHeaders(config[1]), DestinationHeaders(config[1])))

\* verifyCredentials adding the destination headers when any destination field is set
verifyCredentialsAnyDestination(storage) ==
  LET config == getConfig(storage) IN
  IF config = <<>> THEN Throw(<<"Configuration is missing">>)
  ELSE IF SourceIncomplete(config[1]) THEN Throw(<<"Source credentials are incomplete">>)
  ELSE LET c == config[1] IN
       Send("GET", <<SPRING_BOOT_API_URL, "/verify">>,
            IF Truthy(c.destinationBaseUrl) \/ Truthy(c.destinationTokenId)
                 \/ Truthy(c.destinationTokenSecret)
            THEN Merge(SourceHeaders(c), DestinationHeaders(c))
            ELSE SourceHeaders(c))

verifyCredentials(storage) ==
  LET config == getConfig(storage) IN
  IF config = <<>> THEN Throw(<<"Configuration is missing">>)
  ELSE IF SourceIncomplete(config[1]) THEN Throw(<<"Source credentials are incomplete">>)
  ELSE LET c == config[1] IN
       Send("GET", <<SPRING_BOOT_API_URL, "/verify">>,
            IF Truthy(c.destinationBaseUrl) /\ Truthy(c.destinationTokenId)
                 /\ Truthy(c.destinationTokenSecret)
            THEN Merge(SourceHeaders(c), DestinationHeaders(c))
            ELSE SourceHeaders(c))

getRawBooks(storage) ==
  LET config == getConfig(storage) IN
  IF config = <<>> THEN Throw(<<"Configuration is missing">>)
  ELSE IF SourceIncomplete(config[1]) THEN Throw(<<"Source credentials are incomplete">>)
  ELSE Send("GET", <<DEBUG_API_URL, "/books">>, SourceHeaders(config[1]))

listDestinationBooks(storage) ==
  LET config == getConfig(storage) IN
  IF config = <<>> THEN Throw(<<"Configuration is missing">>)
  ELSE IF DestinationIncomplete(config[1])
       THEN Throw(<<"Destination credentials are incomplete">>)
  ELSE Send("GET", <<SPRING_BOOT_API_URL, "/destination/books">>,
            DestinationHeaders(config[1]))

\* deleteDestinationBook with the source check of the methods it was copied from
deleteDestinationBookSourceCheck(storage, bookId) ==
  LET config == getConfig(storage) IN
  IF config = <<>> THEN Throw(<<"Configuration is missing">>)
  ELSE IF SourceIncomplete(config[1])
       THEN Throw(<<"Source credentials are incomplete">>)
  ELSE Send("DELETE", <<SPRING_BOOT_API_URL, "/destination/books/", bookId>>,
            DestinationHeaders(config[1]))

deleteDestinationBook(storage, bookId) ==
  LET config == getConfig(storage) IN
  IF config = <<>> THEN Throw(<<"Configuration is missing">>)
  ELSE IF DestinationIncomplete(config[1])
       THEN Throw(<<"Destination credentials are incomplete">>)
  ELSE Send("DELETE", <<SPRING_BOOT_API_URL, "/destination/books/", bookId>>,
            DestinationHeaders(config[1]))

GatewayOps == {"listBooks", "getBook", "syncBook", "syncBooks", "verifyCredentials",
               "getRawBooks", "listDestinationBooks", "deleteDestinationBook"}

\* dispatch of a call on the SpringBootApi instance
Invoke(op, storage, id) ==
  CASE op = "listBooks" -> listBooks(storage)
    [] op = "getBook" -> getBook(storage, id)
    [] op = "syncBook" -> syncBook(storage, id)
    [] op = "syncBooks" -> syncBooks(storage)
    [] op = "verifyCredentials" -> verifyCredentials(storage)
    [] op = "getRawBooks" -> getRawBooks(storage)
    [] op = "listDestinationBooks" -> listDestinationBooks(storage)
    [] op = "deleteDestinationBook" -> deleteDestinationBook(storage, id)

\* the destroy method App calls is not part of the gateway source; it is
\* modelled as the gateway's other destination-scoped calls are written
destroy(storage) ==
  LET config == getConfig(storage) IN
  IF config = <<>> THEN Throw(<<"Configuration is missing">>)
  ELSE IF DestinationIncomplete(config[1])
       THEN Throw(<<"Destination credentials are incomplete">>)
  ELSE Send("DELETE", <<SPRING_BOOT_API_URL, "/destination/books">>,
            DestinationHeaders(config[1]))

\* ================================================================ view
\* src/unnamed/part_006 (function App): search, filters, sorting and
\* pagination of the two lists.  A string that the pipeline inspects (a name,
\* a description, the search text) is the sequence of its UTF-16 code units.

ITEMS_PER_PAGE == 15

SortOptions == {"name", "created_at", "updated_at"}
SortDirections == {"asc", "desc"}
Languages == {"all", "english", "chinese"}
SyncStatuses == {"all", "in-destination", "syncing", "not-synced"}

\* ---- the entities the two BookStack instances hold in the model
\* names: ASCII letters in both cases, the empty name, and code units on and
\* next to each boundary of the five ranges of the CJK detector
SampleNames ==
  << <<97>>, <<66>>, <<98>>, <<97, 98>>, <<26360>>, <<97, 12354>>,
     <<12351>>, <<12352>>, <<12543>>, <<12544>>,
     <<13311>>, <<13312>>, <<19903>>, <<19904>>,
     <<19967>>, <<19968>>, <<40959>>, <<40960>>,
     <<63743>>, <<63744>>, <<64255>>, <<64256>>,
     <<65381>>, <<65382>>, <<65439>>, <<65440>>, <<>>, <<65, 66>> >>
SampleDescriptions == << <<>>, <<88, 121>>, <<26360, 97>> >>
SampleDates ==
  <<"2024-01-01T00:00:00.000000Z", "2024-01-02T00:00:00.000000Z",
    "2024-01-03T00:00:00.000000Z">>

Pick(samples, n) == samples[(n % Len(samples)) + 1]

\* the Book with this id on the source instance
SourceBook(id) ==
  [id |-> id, name |-> Pick(SampleNames, id - 1),
   description |-> Pick(SampleDescriptions, id - 1),
   created_at |-> Pick(SampleDates, id - 1),
   updated_at |-> Pick(SampleDates, (id - 1) \div 2)]

\* the Book with this id on the destination instance: an odd id is the copy of
\* the source book with the same id, an even id carries the next book's name
DestinationBook(id) ==
  [id |-> id, name |-> Pick(SampleNames, IF id % 2 = 1 THEN id - 1 ELSE id),
   description |-> Pick(SampleDescriptions, id),
   created_at |-> Pick(SampleDates, id),
   updated_at |-> Pick(SampleDates, id \div 2)]

\* ---- strings
\* String.prototype.toLowerCase (on the letters A-Z; the other code units of
\* the model have no lower-case form)
LowerCase(c) == IF c \in 65..90 THEN c + 32 ELSE c
toLowerCase(s) == [i \in 1..Len(s) |-> LowerCase(s[i])]

\* String.prototype.includes
includes(s, q) ==
  \E i \in 1..(Len(s) - Len(q) + 1) : SubSeq(s, i, i + Len(q) - 1) = q

\* String.prototype.localeCompare for names of ASCII letters: letters compare
\* without case first, and where only case differs the lower-case form is first
RECURSIVE ComparePrimary(_, _)
ComparePrimary(a, b) ==
  IF a = <<>> THEN (IF b = <<>> THEN 0 ELSE -1)
  ELSE IF b = <<>> THEN 1
  ELSE LET x == LowerCase(Head(a))
           y == LowerCase(Head(b))
       IN IF x < y THEN -1 ELSE IF x > y THEN 1 ELSE ComparePrimary(Tail(a), Tail(b))
RECURSIVE CompareCase(_, _)
CompareCase(a, b) ==
  IF a = <<>> THEN 0
  ELSE IF Head(a) = Head(b) THEN CompareCase(Tail(a), Tail(b))
  ELSE IF Head(a) > Head(b) THEN -1 ELSE 1
localeCompare(a, b) ==
  LET p == ComparePrimary(a, b) IN IF p # 0 THEN p ELSE CompareCase(a, b)

\* new Date(text).getTime(), in days (86,400,000 ms) since the epoch: the
\* timestamps of the model are all at midnight UTC
getTime(text) ==
  CASE text = "2024-01-01T00:00:00.000000Z" -> 19723
    [] text = "2024-01-02T00:00:00.000000Z" -> 19724
    [] text = "2024-01-03T00:00:00.000000Z" -> 19725

\* ---- filters
\* The functions below are closures of one render of App: r holds the state
\* values of that render.
Render ==
  [books |-> books, destinationBooks |-> destinationBooks,
   syncProgress |-> syncProgress, searchQuery |-> searchQuery,
   sortOption |-> sortOption, sortDirection |-> sortDirection,
   language |-> language, syncStatus |-> syncStatus]

\* the Book[] values of books and destinationBooks
SourceList(r) == [i \in 1..Len(r.books) |-> SourceBook(r.books[i])]
DestinationList(r) ==
  [i \in 1..Len(r.destinationBooks) |-> DestinationBook(r.destinationBooks[i])]

\* containsCJK: cjkRegex.test(text)
\*   /[\u3040-\u30ff\u3400-\u4dbf\u4e00-\u9fff\uf900-\ufaff\uff66-\uff9f]/
containsCJKWithoutHalfwidth(text) ==
  \E i \in 1..Len(text) :
     \/ text[i] \in 12352..12543
     \/ text[i] \in 13312..19903
     \/ text[i] \in 19968..40959
     \/ text[i] \in 63744..64255

containsCJK(text) ==
  \E i \in 1..Len(text) :
     \/ text[i] \in 12352..12543
     \/ text[i] \in 13312..19903
     \/ text[i] \in 19968..40959
     \/ text[i] \in 63744..64255
     \/ text[i] \in 65382..65439

matchesLanguage(r, book) ==
  \/ r.language = "all"
  \/ r.language = "english" /\ ~containsCJK(book.name)
  \/ r.language = "chinese" /\ containsCJK(book.name)

\* destinationBooks.some(destBook => destBook.name === book.name)
isInDestination(r, book) ==
  \E id \in Range(r.destinationBooks) : DestinationBook(id).name = book.name

\* syncProgress[book.id] && syncProgress[book.id] !== 'completed'
isSyncing(r, book) ==
  Get(r.syncProgress, book.id) # "" /\ Get(r.syncProgress, book.id) # "completed"

matchesSyncStatus(r, book) ==
  \/ r.syncStatus = "all"
  \/ r.syncStatus = "in-destination" /\ isInDestination(r, book)
  \/ r.syncStatus = "syncing" /\ isSyncing(r, book)
  \/ r.syncStatus = "not-synced" /\ ~isInDestination(r, book) /\ ~isSyncing(r, book)

\* the text test of both filter callbacks
matchesSearch(r, book) ==
  \/ includes(toLowerCase(book.name), toLowerCase(r.searchQuery))
  \/ includes(toLowerCase(book.description), toLowerCase(r.searchQuery))

\* ---- sorting
sortBooksAscendingOnly(r, a, b) ==
  CASE r.sortOption = "name" -> localeCompare(a.name, b.name)
    [] r.sortOption = "created_at" -> getTime(a.created_at) - getTime(b.created_at)
    [] r.sortOption = "updated_at" -> getTime(a.updated_at) - getTime(b.updated_at)
    [] OTHER -> localeCompare(a.name, b.name)

sortBooks(r, a, b) ==
  LET comparison ==
        CASE r.sortOption = "name" -> localeCompare(a.name, b.name)
          [] r.sortOption = "created_at" -> getTime(a.created_at) - getTime(b.created_at)
          [] r.sortOption = "updated_at" -> getTime(a.updated_at) - getTime(b.updated_at)
          [] OTHER -> localeCompare(a.name, b.name)
  IN IF r.sortDirection = "asc" THEN comparison ELSE 0 - comparison

\* list.sort((a, b) => sortBooks(a, b)): a stable sort.  The element at index
\* i comes after the elements that compare smaller and after the elements
\* before it in the input that compare equal.
Sort(r, list) ==
  LET n == Len(list)
      before(i) == {j \in 1..n : LET c == sortBooks(r, list[j], list[i])
                                 IN c < 0 \/ (c = 0 /\ j < i)}
      position == [i \in 1..n |-> Cardinality(before(i)) + 1]
  IN [k \in 1..n |-> list[CHOOSE i \in 1..n : position[i] = k]]

\* ---- the memoised lists
\* the callback of the filteredBooks memo, run in render r
FilterAndSortBooks(r) ==
  Sort(r, SelectSeq(SourceList(r),
                    LAMBDA book : /\ matchesSearch(r, book)
                                  /\ matchesLanguage(r, book)
                                  /\ matchesSyncStatus(r, book)))

\* the dependency array of the filteredBooks memo: [books, searchQuery,
\* sortOption, sortDirection, language, syncStatus, destinationBooks].  The
\* two arrays change with every setBooks and setDestinationBooks; syncProgress
\* is not a dependency.
FilteredBooksDeps(r) ==
  <<r.searchQuery, r.sortOption, r.sortDirection, r.language, r.syncStatus>>

\* filteredBooks after render r, which follows a setBooks or setDestinationBooks
RecomputeFilteredBooks(r) == filteredBooks' = FilterAndSortBooks(r)

\* filteredBooks after render r, in which books and destinationBooks are the
\* arrays of the render before
RenderFilteredBooks(r) ==
  filteredBooks' = IF FilteredBooksDeps(r) # FilteredBooksDeps(Render)
                   THEN FilterAndSortBooks(r) ELSE filteredBooks

\* filteredDestinationBooks: every value its callback reads is a dependency
FilterAndSortDestinationBooks(r) ==
  Sort(r, SelectSeq(DestinationList(r),
                    LAMBDA book : matchesSearch(r, book) /\ matchesLanguage(r, book)))
filteredDestinationBooks == FilterAndSortDestinationBooks(Render)

\* ---- pagination
\* Math.ceil(n / d)
Ceil(n, d) == IF n % d = 0 THEN n \div d ELSE (n \div d) + 1
Max(a, b) == IF a >= b THEN a ELSE b
Min(a, b) == IF a <= b THEN a ELSE b

PageCountRoundedDownPlusOne(list) == (Len(list) \div ITEMS_PER_PAGE) + 1
PageCount(list) == Max(1, Ceil(Len(list), ITEMS_PER_PAGE))
totalPages == PageCount(filteredBooks)
totalDestinationPages == PageCount(filteredDestinationBooks)

\* Array.prototype.slice(start, end), 0 <= start <= end
slice(list, start, end) == SubSeq(list, start + 1, Min(end, Len(list)))

PageOf(list, page) ==
  LET startIndex == (page - 1) * ITEMS_PER_PAGE
  IN slice(list, startIndex, startIndex + ITEMS_PER_PAGE)
currentBooks == PageOf(filteredBooks, currentPage)
currentDestinationBooks == PageOf(filteredDestinationBooks, currentPage)

\* the effect with dependencies [searchQuery, sortOption, sortDirection,
\* language, syncStatus]
PageResetDepsWithoutSyncStatus(r) ==
  <<r.searchQuery, r.sortOption, r.sortDirection, r.language>>
PageResetDeps(r) ==
  <<r.searchQuery, r.sortOption, r.sortDirection, r.language, r.syncStatus>>

\* currentPage after render r, when the handler did not call setCurrentPage
ResetPageEffect(r) ==
  currentPage' = IF PageResetDeps(r) # PageResetDeps(Render) THEN 1 ELSE currentPage

\* ---- the counts in the labels of the sync-status filter
CountBooks(r, Test(_)) ==
  Cardinality({i \in 1..Len(r.books) : Test(SourceBook(r.books[i]))})
\* the tests of the three counts (the useMemo callbacks)
countsInDestination(r, book) == isInDestination(r, book)
countsSyncing(r, book) == isSyncing(r, book) /\ ~isInDestination(r, book)
countsNotSynced(r, book) ==
  /\ ~isInDestination(r, book)
  /\ \/ Get(r.syncProgress, book.id) = ""
     \/ Get(r.syncProgress, book.id) = "Failed"

inDestinationCount == CountBooks(Render, LAMBDA book : countsInDestination(Render, book))
syncingCount == CountBooks(Render, LAMBDA book : countsSyncing(Render, book))
notSyncedCount == CountBooks(Render, LAMBDA book : countsNotSynced(Render, book))

\* ================================================================ App
\* src/unnamed/part_006 (function App)

\* configurations the form saves in the App specification
SourceOnlyConfig ==
  [sourceBaseUrl |-> "src-url", sourceTokenId |-> "src-id", sourceTokenSecret |-> "src-secret",
   destinationBaseUrl |-> "", destinationTokenId |-> "", destinationTokenSecret |-> ""]
FullConfig ==
  [sourceBaseUrl |-> "src-url", sourceTokenId |-> "src-id", sourceTokenSecret |-> "src-secret",
   destinationBaseUrl |-> "dst-url", destinationTokenId |-> "dst-id",
   destinationTokenSecret |-> "dst-secret"]
AppConfigs == {SourceOnlyConfig, FullConfig}

\* lists a backend answers with: the first k books it holds, k = 0..NumBooks
\* (a book that was listed before can be missing from a later answer)
BackendLists == {[i \in 1..k |-> i] : k \in 0..NumBooks}

\* a run of handleSync or confirmDeleteMultipleBooks: what its closure captured
\* (ids: the selection, list: the entity list, ds: deleteStatus), its loop
\* position and counters, and log, the history of the calls it has made
NewTask ==
  [kind |-> "", ids |-> <<>>, list |-> <<>>, ds |-> EmptyMap, idx |-> 0,
   completedCount |-> 0, failedCount |-> 0, log |-> <<>>]

\* tasks.splice(i, 1)
RemoveAt(s, i) == [j \in 1..(Len(s) - 1) |-> IF j < i THEN s[j] ELSE s[j + 1]]

\* A list request in flight: the list the backend will answer it with if it
\* succeeds, whether a request started after it has completed already, and
\* whether the stored configuration was changed since it was sent
Request(response) == [response |-> response, overtaken |-> FALSE, stale |-> FALSE]

\* the requests in flight when a configuration update replaces the stored
\* configuration by another one
Outdated(loads, changed) ==
  [j \in 1..Len(loads) |-> [loads[j] EXCEPT !.stale = @ \/ changed]]

\* request i of loads completes: it leaves, the older ones are overtaken
Complete(loads, i) ==
  [j \in 1..(Len(loads) - 1) |->
     IF j < i THEN [loads[j] EXCEPT !.overtaken = TRUE] ELSE loads[j + 1]]

Settled(kind, request, ok) ==
  [kind |-> kind, response |-> request.response, overtaken |-> request.overtaken,
   stale |-> request.stale, ok |-> ok]

\* the ConfirmationModal overlay (fixed inset-0, z-50) covers the page
ModalOpen == bookToDelete # "null" \/ showDestroyConfirm

\* setSuccess(...) of a batch: which of the two messages, with its counts
Summary(op, t) ==
  <<[op |-> op, all |-> (t.failedCount = 0),
     completed |-> t.completedCount, failed |-> t.failedCount]>>

\* handleSync, the for loop from position i up to the next suspension: an id
\* that is not in the captured list is skipped; syncBook either throws before
\* any request (the status goes to Failed in the same run) or sends one.
RECURSIVE SyncLoop(_, _, _, _)
SyncLoop(t, i, prog, storage) ==
  IF i > Len(t.ids) THEN [t |-> t, prog |-> prog, done |-> TRUE]
  ELSE LET bookId == t.ids[i] IN
       IF bookId \notin Range(t.list) THEN SyncLoop(t, i + 1, prog, storage)
       ELSE IF syncBook(storage, bookId).thrown # <<>>
            THEN SyncLoop([t EXCEPT !.failedCount = @ + 1,
                                    !.log = Append(@, <<bookId, "Failed">>)],
                          i + 1, Put(Put(prog, bookId, "Syncing..."), bookId, "Failed"),
                          storage)
            ELSE [t |-> [t EXCEPT !.idx = i], prog |-> Put(prog, bookId, "Syncing..."),
                  done |-> FALSE]

\* confirmDeleteMultipleBooks, the for loop (as SyncLoop)
RECURSIVE DeleteLoop(_, _, _, _)
DeleteLoop(t, i, stat, storage) ==
  IF i > Len(t.ids) THEN [t |-> t, prog |-> stat, done |-> TRUE]
  ELSE LET bookId == t.ids[i] IN
       IF bookId \notin Range(t.list) THEN DeleteLoop(t, i + 1, stat, storage)
       ELSE IF deleteDestinationBook(storage, bookId).thrown # <<>>
            THEN DeleteLoop([t EXCEPT !.failedCount = @ + 1,
                                      !.log = Append(@, <<bookId, "Failed">>)],
                            i + 1, Put(Put(stat, bookId, "Deleting..."), bookId, "Failed"),
                            storage)
            ELSE [t |-> [t EXCEPT !.idx = i], prog |-> Put(stat, bookId, "Deleting..."),
                  done |-> FALSE]

\* confirmDeleteMultipleBooks: the filter that rewrites the destination list
\* once the loop is over; deleteStatus is the map the closure captured.
RemoveDeleted(prev, selected, capturedDeleteStatus) ==
  FilterSeq(prev, {b \in Range(prev) :
                     b \notin Range(selected) \/ Get(capturedDeleteStatus, b) = "Failed"})

\* ---- source tab

\* handleSync without the return after setError: it goes on into its try block
handleSyncEmptyNoReturn ==
  /\ Len(selectedBookIds) = 0
  /\ syncProgress' = InitialStatus(selectedBookIds)
  /\ success' = Summary("sync", NewTask)
  /\ loading' = FALSE
  /\ error' = ""
  /\ finished' = <<>>
  /\ settled' = <<>>
  /\ UNCHANGED <<books, destinationBooks, selectedBookIds, selectedDestinationBookIds,
                 deleteStatus, activeTab, bookToDelete, showDestroyConfirm, destroyStatus,
                 sessionStorage, tasks, srcLoads, dstLoads, destroys, gw,
                 viewVars>>

\* handleSync called with no id selected (lines 1169-1172).  The sync button is
\* disabled for an empty selection, so this is the handler called directly.
handleSyncEmpty ==
  /\ Len(selectedBookIds) = 0
  /\ error' = "Please select at least one book to sync"
  /\ success' = <<>>
  /\ finished' = <<>>
  /\ settled' = <<>>
  /\ UNCHANGED <<books, destinationBooks, selectedBookIds, selectedDestinationBookIds,
                 loading, syncProgress, deleteStatus, activeTab, bookToDelete,
                 showDestroyConfirm, destroyStatus, sessionStorage, tasks, srcLoads,
                 dstLoads, destroys, gw,
                 viewVars>>

\* (variant: the batch adds its Pending entries to the map of the batch before)
handleSyncKeepsEntries ==
  /\ activeTab = "books" /\ Len(books) > 0 /\ ~ModalOpen
  /\ ~(Len(selectedBookIds) = 0 \/ loading)
  /\ LET t0 == [NewTask EXCEPT !.kind = "sync", !.ids = selectedBookIds, !.list = books]
         r == SyncLoop(t0, 1, [x \in DOMAIN syncProgress \cup Range(selectedBookIds) |->
                                 IF x \in Range(selectedBookIds) THEN "Pending"
                                 ELSE syncProgress[x]], sessionStorage)
     IN /\ syncProgress' = r.prog
        /\ IF r.done
           THEN /\ success' = Summary("sync", r.t)
                /\ loading' = FALSE
                /\ tasks' = tasks
                /\ finished' = <<r.t>>
                /\ settled' = <<>>
           ELSE /\ Len(tasks) < MaxTasks
                /\ success' = <<>>
                /\ loading' = TRUE
                /\ tasks' = Append(tasks, r.t)
                /\ finished' = <<>>
                /\ settled' = <<>>
  /\ error' = ""
  /\ UNCHANGED <<books, destinationBooks, selectedBookIds, selectedDestinationBookIds,
                 deleteStatus, activeTab, bookToDelete, showDestroyConfirm, destroyStatus,
                 sessionStorage, srcLoads, dstLoads, destroys, gw,
                 viewVars>>

\* handleSync from the click to its first suspension (or to its return)
handleSync ==
  /\ activeTab = "books" /\ Len(books) > 0 /\ ~ModalOpen
  /\ ~(Len(selectedBookIds) = 0 \/ loading)
  /\ LET t0 == [NewTask EXCEPT !.kind = "sync", !.ids = selectedBookIds, !.list = books]
         r == SyncLoop(t0, 1, InitialStatus(selectedBookIds), sessionStorage)
     IN /\ syncProgress' = r.prog
        /\ IF r.done
           THEN /\ success' = Summary("sync", r.t)
                /\ loading' = FALSE
                /\ tasks' = tasks
                /\ finished' = <<r.t>>
                /\ settled' = <<>>
           ELSE /\ Len(tasks) < MaxTasks
                /\ success' = <<>>
                /\ loading' = TRUE
                /\ tasks' = Append(tasks, r.t)
                /\ finished' = <<>>
                /\ settled' = <<>>
  /\ error' = ""
  /\ UNCHANGED <<books, destinationBooks, selectedBookIds, selectedDestinationBookIds,
                 deleteStatus, activeTab, bookToDelete, showDestroyConfirm, destroyStatus,
                 sessionStorage, srcLoads, dstLoads, destroys, gw,
                 viewVars>>

\* handleSync resumed by the answer to the syncBook request of run i
SyncSettles(i, ok) ==
  /\ tasks[i].kind = "sync"
  /\ LET t == tasks[i]
         bookId == t.ids[t.idx]
         result == IF ok THEN "Completed" ELSE "Failed"
         t1 == [t EXCEPT !.completedCount = IF ok THEN @ + 1 ELSE @,
                         !.failedCount = IF ok THEN @ ELSE @ + 1,
                         !.log = Append(@, <<bookId, result>>)]
         r == SyncLoop(t1, t.idx + 1, Put(syncProgress, bookId, result), sessionStorage)
     IN /\ syncProgress' = r.prog
        /\ IF r.done
           THEN /\ success' = Summary("sync", r.t)
                /\ loading' = FALSE
                /\ tasks' = RemoveAt(tasks, i)
                /\ finished' = <<r.t>>
                /\ settled' = <<>>
           ELSE /\ success' = <<>>
                /\ loading' = loading
                /\ tasks' = [tasks EXCEPT ![i] = r.t]
                /\ finished' = <<>>
                /\ settled' = <<>>
  /\ error' = ""
  /\ UNCHANGED <<books, destinationBooks, selectedBookIds, selectedDestinationBookIds,
                 deleteStatus, activeTab, bookToDelete, showDestroyConfirm, destroyStatus,
                 sessionStorage, srcLoads, dstLoads, destroys, gw,
                 viewVars>>

syncBookResolves == \E i \in 1..Len(tasks) : SyncSettles(i, TRUE)
syncBookRejects == \E i \in 1..Len(tasks) : SyncSettles(i, FALSE)

\* Clear Status on the source tab: onClick={() => setSyncProgress({})}.  The
\* button is part of the summary banner, which stays on display from the end
\* of a batch until a handler resets the message.
clearSyncStatus ==
  /\ activeTab = "books" /\ ~ModalOpen
  /\ syncProgress' = EmptyMap
  /\ error' = ""
  /\ success' = <<>>
  /\ finished' = <<>>
  /\ settled' = <<>>
  /\ UNCHANGED <<books, destinationBooks, selectedBookIds, selectedDestinationBookIds,
                 loading, deleteStatus, activeTab, bookToDelete, showDestroyConfirm,
                 destroyStatus, sessionStorage, tasks, srcLoads, dstLoads, destroys, gw,
                 viewVars>>

\* loadBooks up to its await; listBooks throws at once without credentials
loadBooks ==
  /\ activeTab = "books" /\ ~ModalOpen /\ ~loading
  /\ IF listBooks(sessionStorage).thrown # <<>>
     THEN /\ error' = "Failed to load books. Please check the Spring Boot API."
          /\ loading' = FALSE
          /\ srcLoads' = srcLoads
     ELSE /\ Len(srcLoads) < MaxLoads
          /\ error' = ""
          /\ loading' = TRUE
          /\ \E response \in BackendLists : srcLoads' = Append(srcLoads, Request(response))
  /\ success' = <<>>
  /\ finished' = <<>>
  /\ settled' = <<>>
  /\ UNCHANGED <<books, destinationBooks, selectedBookIds, selectedDestinationBookIds,
                 syncProgress, deleteStatus, activeTab, bookToDelete, showDestroyConfirm,
                 destroyStatus, sessionStorage, tasks, dstLoads, destroys, gw,
                 viewVars>>

loadBooksResolves ==
  /\ \E i \in 1..Len(srcLoads) :
       /\ books' = srcLoads[i].response
       /\ RecomputeFilteredBooks([Render EXCEPT !.books = srcLoads[i].response])
       /\ srcLoads' = Complete(srcLoads, i)
       /\ settled' = <<Settled("source", srcLoads[i], TRUE)>>
  /\ loading' = FALSE
  /\ error' = ""
  /\ success' = <<>>
  /\ finished' = <<>>
  /\ UNCHANGED <<destinationBooks, selectedBookIds, selectedDestinationBookIds,
                 syncProgress, deleteStatus, activeTab, bookToDelete, showDestroyConfirm,
                 destroyStatus, sessionStorage, tasks, dstLoads, destroys, gw,
                 searchQuery, sortOption,
                 sortDirection, language, syncStatus, currentPage>>

loadBooksRejects ==
  /\ \E i \in 1..Len(srcLoads) :
       /\ srcLoads' = Complete(srcLoads, i)
       /\ settled' = <<Settled("source", srcLoads[i], FALSE)>>
  /\ error' = "Failed to load books. Please check the Spring Boot API."
  /\ loading' = FALSE
  /\ success' = <<>>
  /\ finished' = <<>>
  /\ UNCHANGED <<books, destinationBooks, selectedBookIds, selectedDestinationBookIds,
                 syncProgress, deleteStatus, activeTab, bookToDelete, showDestroyConfirm,
                 destroyStatus, sessionStorage, tasks, dstLoads, destroys, gw,
                 viewVars>>

\* prev.includes(bookId) ? prev.filter(id => id !== bookId) : [...prev, bookId]
Toggle(prev, bookId) ==
  IF bookId \in Range(prev) THEN FilterSeq(prev, Range(prev) \ {bookId})
  ELSE Append(prev, bookId)

\* currentBooks.map(book => book.id)
Ids(list) == [i \in 1..Len(list) |-> list[i].id]

\* the checkbox of a book on the page shown
handleBookSelection ==
  /\ activeTab = "books" /\ ~ModalOpen
  /\ \E bookId \in Range(Ids(currentBooks)) :
       selectedBookIds' = Toggle(selectedBookIds, bookId)
  /\ error' = ""
  /\ success' = <<>>
  /\ finished' = <<>>
  /\ settled' = <<>>
  /\ UNCHANGED <<books, destinationBooks, selectedDestinationBookIds, loading,
                 syncProgress, deleteStatus, activeTab, bookToDelete, showDestroyConfirm,
                 destroyStatus, sessionStorage, tasks, srcLoads, dstLoads, destroys, gw,
                 viewVars>>

handleSelectAll ==
  /\ activeTab = "books" /\ Len(books) > 0 /\ ~ModalOpen
  /\ selectedBookIds' = IF Len(selectedBookIds) = Len(currentBooks) THEN <<>>
                        ELSE Ids(currentBooks)
  /\ error' = ""
  /\ success' = <<>>
  /\ finished' = <<>>
  /\ settled' = <<>>
  /\ UNCHANGED <<books, destinationBooks, selectedDestinationBookIds, loading,
                 syncProgress, deleteStatus, activeTab, bookToDelete, showDestroyConfirm,
                 destroyStatus, sessionStorage, tasks, srcLoads, dstLoads, destroys, gw,
                 viewVars>>

\* ---- destination tab

\* loadDestinationBooks up to its await (the body shared by the load button
\* and by handleTabChange('manage'))
LoadDestinationBooksBody ==
  IF listDestinationBooks(sessionStorage).thrown # <<>>
  THEN /\ error' = "Failed to load destination books. Please check the Spring Boot API."
       /\ loading' = FALSE
       /\ dstLoads' = dstLoads
  ELSE /\ Len(dstLoads) < MaxLoads
       /\ error' = ""
       /\ loading' = TRUE
       /\ \E response \in BackendLists : dstLoads' = Append(dstLoads, Request(response))

loadDestinationBooks ==
  /\ activeTab = "manage" /\ ~ModalOpen /\ ~loading
  /\ LoadDestinationBooksBody
  /\ success' = <<>>
  /\ finished' = <<>>
  /\ settled' = <<>>
  /\ UNCHANGED <<books, destinationBooks, selectedBookIds, selectedDestinationBookIds,
                 syncProgress, deleteStatus, activeTab, bookToDelete, showDestroyConfirm,
                 destroyStatus, sessionStorage, tasks, srcLoads, destroys, gw,
                 viewVars>>

\* (variant: the answer to a request is dropped once a later request has completed)
loadDestinationBooksResolvesUnlessOvertaken ==
  /\ \E i \in 1..Len(dstLoads) :
       /\ LET response == IF dstLoads[i].overtaken THEN destinationBooks
                          ELSE dstLoads[i].response
          IN /\ destinationBooks' = response
             /\ RecomputeFilteredBooks([Render EXCEPT !.destinationBooks = response])
       /\ dstLoads' = Complete(dstLoads, i)
       /\ settled' = <<Settled("destination", dstLoads[i], TRUE)>>
  /\ loading' = FALSE
  /\ error' = ""
  /\ success' = <<>>
  /\ finished' = <<>>
  /\ UNCHANGED <<books, selectedBookIds, selectedDestinationBookIds, syncProgress,
                 deleteStatus, activeTab, bookToDelete, showDestroyConfirm, destroyStatus,
                 sessionStorage, tasks, srcLoads, destroys, gw,
                 searchQuery, sortOption,
                 sortDirection, language, syncStatus, currentPage>>

loadDestinationBooksResolves ==
  /\ \E i \in 1..Len(dstLoads) :
       /\ destinationBooks' = dstLoads[i].response
       /\ RecomputeFilteredBooks([Render EXCEPT !.destinationBooks = dstLoads[i].response])
       /\ dstLoads' = Complete(dstLoads, i)
       /\ settled' = <<Settled("destination", dstLoads[i], TRUE)>>
  /\ loading' = FALSE
  /\ error' = ""
  /\ success' = <<>>
  /\ finished' = <<>>
  /\ UNCHANGED <<books, selectedBookIds, selectedDestinationBookIds, syncProgress,
                 deleteStatus, activeTab, bookToDelete, showDestroyConfirm, destroyStatus,
                 sessionStorage, tasks, srcLoads, destroys, gw,
                 searchQuery, sortOption,
                 sortDirection, language, syncStatus, currentPage>>

loadDestinationBooksRejects ==
  /\ \E i \in 1..Len(dstLoads) :
       /\ dstLoads' = Complete(dstLoads, i)
       /\ settled' = <<Settled("destination", dstLoads[i], FALSE)>>
  /\ error' = "Failed to load destination books. Please check the Spring Boot API."
  /\ loading' = FALSE
  /\ success' = <<>>
  /\ finished' = <<>>
  /\ UNCHANGED <<books, destinationBooks, selectedBookIds, selectedDestinationBookIds,
                 syncProgress, deleteStatus, activeTab, bookToDelete, showDestroyConfirm,
                 destroyStatus, sessionStorage, tasks, srcLoads, destroys, gw,
                 viewVars>>

\* handleTabChange(tab); the tab buttons are never disabled
handleTabChange ==
  /\ ~ModalOpen
  /\ \E tab \in {"books", "manage", "config"} :
       /\ activeTab' = tab
       /\ IF tab = "manage" THEN LoadDestinationBooksBody
          ELSE /\ error' = ""
               /\ UNCHANGED <<loading, dstLoads>>
  /\ success' = <<>>
  /\ finished' = <<>>
  /\ settled' = <<>>
  /\ UNCHANGED <<books, destinationBooks, selectedBookIds, selectedDestinationBookIds,
                 syncProgress, deleteStatus, bookToDelete, showDestroyConfirm,
                 destroyStatus, sessionStorage, tasks, srcLoads, destroys, gw,
                 sortOption, sortDirection, language, syncStatus>>
  /\ currentPage' = 1
  /\ searchQuery' = <<>>
  /\ RenderFilteredBooks([Render EXCEPT !.searchQuery = <<>>])

handleDestinationBookSelection ==
  /\ activeTab = "manage" /\ ~ModalOpen
  /\ \E bookId \in Range(Ids(currentDestinationBooks)) :
       selectedDestinationBookIds' = Toggle(selectedDestinationBookIds, bookId)
  /\ error' = ""
  /\ success' = <<>>
  /\ finished' = <<>>
  /\ settled' = <<>>
  /\ UNCHANGED <<books, destinationBooks, selectedBookIds, loading, syncProgress,
                 deleteStatus, activeTab, bookToDelete, showDestroyConfirm, destroyStatus,
                 sessionStorage, tasks, srcLoads, dstLoads, destroys, gw,
                 viewVars>>

handleSelectAllDestination ==
  /\ activeTab = "manage" /\ Len(destinationBooks) > 0 /\ ~ModalOpen
  /\ selectedDestinationBookIds' =
       IF Len(selectedDestinationBookIds) = Len(currentDestinationBooks) THEN <<>>
       ELSE Ids(currentDestinationBooks)
  /\ error' = ""
  /\ success' = <<>>
  /\ finished' = <<>>
  /\ settled' = <<>>
  /\ UNCHANGED <<books, destinationBooks, selectedBookIds, loading, syncProgress,
                 deleteStatus, activeTab, bookToDelete, showDestroyConfirm, destroyStatus,
                 sessionStorage, tasks, srcLoads, dstLoads, destroys, gw,
                 viewVars>>

\* handleDeleteMultipleBooks called with no id selected (lines 1038-1041); the
\* delete-selected button is disabled then, so this is the handler called directly
handleDeleteMultipleBooksEmpty ==
  /\ Len(selectedDestinationBookIds) = 0
  /\ error' = "Please select at least one book to delete"
  /\ success' = <<>>
  /\ finished' = <<>>
  /\ settled' = <<>>
  /\ UNCHANGED <<books, destinationBooks, selectedBookIds, selectedDestinationBookIds,
                 loading, syncProgress, deleteStatus, activeTab, bookToDelete,
                 showDestroyConfirm, destroyStatus, sessionStorage, tasks, srcLoads,
                 dstLoads, destroys, gw,
                 viewVars>>

\* handleDeleteMultipleBooks: opens the confirmation for the id -1 marker
handleDeleteMultipleBooks ==
  /\ activeTab = "manage" /\ Len(destinationBooks) > 0 /\ ~ModalOpen
  /\ ~(Len(selectedDestinationBookIds) = 0 \/ loading)
  /\ bookToDelete' = "multiple"
  /\ error' = ""
  /\ success' = <<>>
  /\ finished' = <<>>
  /\ settled' = <<>>
  /\ UNCHANGED <<books, destinationBooks, selectedBookIds, selectedDestinationBookIds,
                 loading, syncProgress, deleteStatus, activeTab, showDestroyConfirm,
                 destroyStatus, sessionStorage, tasks, srcLoads, dstLoads, destroys, gw,
                 viewVars>>

cancelDeleteBook ==
  /\ bookToDelete # "null" /\ ~showDestroyConfirm
  /\ bookToDelete' = "null"
  /\ error' = ""
  /\ success' = <<>>
  /\ finished' = <<>>
  /\ settled' = <<>>
  /\ UNCHANGED <<books, destinationBooks, selectedBookIds, selectedDestinationBookIds,
                 loading, syncProgress, deleteStatus, activeTab, showDestroyConfirm,
                 destroyStatus, sessionStorage, tasks, srcLoads, dstLoads, destroys, gw,
                 viewVars>>

\* the end of confirmDeleteMultipleBooks, after its loop
DeleteReturns(t) ==
  /\ destinationBooks' = RemoveDeleted(destinationBooks, t.ids, t.ds)
  /\ RecomputeFilteredBooks([Render EXCEPT !.destinationBooks =
                                       RemoveDeleted(destinationBooks, t.ids, t.ds)])
  /\ selectedDestinationBookIds' = <<>>
  /\ success' = Summary("delete", t)
  /\ bookToDelete' = "null"
  /\ loading' = FALSE
  /\ finished' = <<t>>
  /\ settled' = <<>>

\* the confirm button of the delete dialog: confirmDeleteBook, which for the
\* id -1 marker is confirmDeleteMultipleBooks, up to its first suspension.
\* The button is not disabled while a batch runs.
confirmDeleteMultipleBooks ==
  /\ bookToDelete = "multiple" /\ ~showDestroyConfirm
  /\ IF Len(selectedDestinationBookIds) = 0
     THEN /\ success' = <<>>
          /\ finished' = <<>>
          /\ settled' = <<>>
          /\ UNCHANGED <<destinationBooks, selectedDestinationBookIds, loading,
                         deleteStatus, bookToDelete, tasks, filteredBooks>>
     ELSE LET t0 == [NewTask EXCEPT !.kind = "delete",
                                    !.ids = selectedDestinationBookIds,
                                    !.list = destinationBooks, !.ds = deleteStatus]
              r == DeleteLoop(t0, 1, InitialStatus(selectedDestinationBookIds),
                              sessionStorage)
          IN /\ deleteStatus' = r.prog
             /\ IF r.done
                THEN /\ DeleteReturns(r.t)
                     /\ tasks' = tasks
                ELSE /\ Len(tasks) < MaxTasks
                     /\ success' = <<>>
                     /\ loading' = TRUE
                     /\ tasks' = Append(tasks, r.t)
                     /\ finished' = <<>>
                     /\ settled' = <<>>
                     /\ UNCHANGED <<destinationBooks, selectedDestinationBookIds,
                                    bookToDelete, filteredBooks>>
  /\ error' = ""
  /\ UNCHANGED <<books, selectedBookIds, syncProgress, activeTab, showDestroyConfirm,
                 destroyStatus, sessionStorage, srcLoads, dstLoads, destroys, gw,
                 searchQuery, sortOption,
                 sortDirection, language, syncStatus, currentPage>>

\* confirmDeleteMultipleBooks resumed by the answer to the delete request of run i
DeleteSettles(i, ok) ==
  /\ tasks[i].kind = "delete"
  /\ LET t == tasks[i]
         bookId == t.ids[t.idx]
         result == IF ok THEN "Deleted" ELSE "Failed"
         t1 == [t EXCEPT !.completedCount = IF ok THEN @ + 1 ELSE @,
                         !.failedCount = IF ok THEN @ ELSE @ + 1,
                         !.log = Append(@, <<bookId, result>>)]
         r == DeleteLoop(t1, t.idx + 1, Put(deleteStatus, bookId, result), sessionStorage)
     IN /\ deleteStatus' = r.prog
        /\ IF r.done
           THEN /\ DeleteReturns(r.t)
                /\ tasks' = RemoveAt(tasks, i)
           ELSE /\ tasks' = [tasks EXCEPT ![i] = r.t]
                /\ success' = <<>>
                /\ finished' = <<>>
                /\ settled' = <<>>
                /\ UNCHANGED <<destinationBooks, selectedDestinationBookIds,
                               bookToDelete, loading, filteredBooks>>
  /\ error' = ""
  /\ UNCHANGED <<books, selectedBookIds, syncProgress, activeTab, showDestroyConfirm,
                 destroyStatus, sessionStorage, srcLoads, dstLoads, destroys, gw,
                 searchQuery, sortOption,
                 sortDirection, language, syncStatus, currentPage>>

deleteDestinationBookResolves == \E i \in 1..Len(tasks) : DeleteSettles(i, TRUE)
deleteDestinationBookRejects == \E i \in 1..Len(tasks) : DeleteSettles(i, FALSE)

\* the destroy-all button starting the request itself
openDestroyConfirmAndSend ==
  /\ activeTab = "manage" /\ Len(destinationBooks) > 0 /\ ~ModalOpen
  /\ destroys < MaxLoads
  /\ showDestroyConfirm' = TRUE
  /\ destroyStatus' = "Destroying..."
  /\ loading' = TRUE
  /\ destroys' = destroys + 1
  /\ error' = ""
  /\ success' = <<>>
  /\ finished' = <<>>
  /\ settled' = <<>>
  /\ UNCHANGED <<books, destinationBooks, selectedBookIds, selectedDestinationBookIds,
                 syncProgress, deleteStatus, activeTab, bookToDelete,
                 sessionStorage, tasks, srcLoads, dstLoads, gw, viewVars>>

\* the destroy-all button: setShowDestroyConfirm(true)
openDestroyConfirm ==
  /\ activeTab = "manage" /\ Len(destinationBooks) > 0 /\ ~ModalOpen
  /\ showDestroyConfirm' = TRUE
  /\ error' = ""
  /\ success' = <<>>
  /\ finished' = <<>>
  /\ settled' = <<>>
  /\ UNCHANGED <<books, destinationBooks, selectedBookIds, selectedDestinationBookIds,
                 loading, syncProgress, deleteStatus, activeTab, bookToDelete,
                 destroyStatus, sessionStorage, tasks, srcLoads, dstLoads, destroys, gw,
                 viewVars>>

cancelDestroy ==
  /\ showDestroyConfirm
  /\ showDestroyConfirm' = FALSE
  /\ error' = ""
  /\ success' = <<>>
  /\ finished' = <<>>
  /\ settled' = <<>>
  /\ UNCHANGED <<books, destinationBooks, selectedBookIds, selectedDestinationBookIds,
                 loading, syncProgress, deleteStatus, activeTab, bookToDelete,
                 destroyStatus, sessionStorage, tasks, srcLoads, dstLoads, destroys, gw,
                 viewVars>>

\* handleDestroy up to its await
handleDestroy ==
  /\ showDestroyConfirm
  /\ IF destroy(sessionStorage).thrown # <<>>
     THEN /\ error' = "Failed to destroy books. Please check the Spring Boot API."
          /\ destroyStatus' = "Failed"
          /\ loading' = FALSE
          /\ destroys' = destroys
     ELSE /\ destroys < MaxLoads
          /\ error' = ""
          /\ destroyStatus' = "Destroying..."
          /\ loading' = TRUE
          /\ destroys' = destroys + 1
  /\ success' = <<>>
  /\ finished' = <<>>
  /\ settled' = <<>>
  /\ UNCHANGED <<books, destinationBooks, selectedBookIds, selectedDestinationBookIds,
                 syncProgress, deleteStatus, activeTab, bookToDelete, showDestroyConfirm,
                 sessionStorage, tasks, srcLoads, dstLoads, gw,
                 viewVars>>

destroyResolves ==
  /\ destroys > 0
  /\ destroyStatus' = "Destroyed"
  /\ success' = <<[op |-> "destroy", all |-> TRUE, completed |-> 0, failed |-> 0]>>
  /\ destinationBooks' = <<>>
  /\ selectedDestinationBookIds' = <<>>
  /\ showDestroyConfirm' = FALSE
  /\ loading' = FALSE
  /\ destroys' = destroys - 1
  /\ error' = ""
  /\ finished' = <<>>
  /\ settled' = <<>>
  /\ UNCHANGED <<books, selectedBookIds, syncProgress, deleteStatus, activeTab,
                 bookToDelete, sessionStorage, tasks, srcLoads, dstLoads, gw,
                 searchQuery, sortOption,
                 sortDirection, language, syncStatus, currentPage>>
  /\ RecomputeFilteredBooks([Render EXCEPT !.destinationBooks = <<>>])

\* (variant: the catch branch also clears the selection)
destroyRejectsClearsSelection ==
  /\ destroys > 0
  /\ error' = "Failed to destroy books. Please check the Spring Boot API."
  /\ destroyStatus' = "Failed"
  /\ loading' = FALSE
  /\ destroys' = destroys - 1
  /\ success' = <<>>
  /\ finished' = <<>>
  /\ settled' = <<>>
  /\ selectedDestinationBookIds' = <<>>
  /\ UNCHANGED <<books, destinationBooks, selectedBookIds,
                 syncProgress, deleteStatus, activeTab, bookToDelete, showDestroyConfirm,
                 sessionStorage, tasks, srcLoads, dstLoads, gw,
                 viewVars>>

destroyRejects ==
  /\ destroys > 0
  /\ error' = "Failed to destroy books. Please check the Spring Boot API."
  /\ destroyStatus' = "Failed"
  /\ loading' = FALSE
  /\ destroys' = destroys - 1
  /\ success' = <<>>
  /\ finished' = <<>>
  /\ settled' = <<>>
  /\ UNCHANGED <<books, destinationBooks, selectedBookIds, selectedDestinationBookIds,
                 syncProgress, deleteStatus, activeTab, bookToDelete, showDestroyConfirm,
                 sessionStorage, tasks, srcLoads, dstLoads, gw,
                 viewVars>>

\* ---- configuration tab

\* ConfigForm.saveConfig stores the form and dispatches CONFIG_UPDATED_EVENT,
\* which App answers with handleConfigUpdate
handleConfigUpdate ==
  /\ activeTab = "config" /\ ~ModalOpen
  /\ \E config \in AppConfigs : sessionStorage' = saveConfig(config)
  /\ books' = <<>>
  /\ destinationBooks' = <<>>
  /\ srcLoads' = Outdated(srcLoads, sessionStorage' # sessionStorage)
  /\ dstLoads' = Outdated(dstLoads, sessionStorage' # sessionStorage)
  /\ error' = ""
  /\ success' = <<>>
  /\ finished' = <<>>
  /\ settled' = <<>>
  /\ UNCHANGED <<selectedBookIds, selectedDestinationBookIds, loading, syncProgress,
                 deleteStatus, activeTab, bookToDelete, showDestroyConfirm, destroyStatus,
                 tasks, destroys, gw,
                 searchQuery, sortOption,
                 sortDirection, language, syncStatus, currentPage>>
  /\ RecomputeFilteredBooks([Render EXCEPT !.books = <<>>, !.destinationBooks = <<>>])

\* confirmDeleteMultipleBooks called with no id selected (line 1064): it returns
\* before its try block.  From the dialog this needs a selection that was
\* emptied while the dialog was open, so this is the handler called directly.
confirmDeleteMultipleBooksEmpty ==
  /\ Len(selectedDestinationBookIds) = 0
  /\ error' = ""
  /\ success' = <<>>
  /\ finished' = <<>>
  /\ settled' = <<>>
  /\ UNCHANGED <<books, destinationBooks, selectedBookIds, selectedDestinationBookIds,
                 loading, syncProgress, deleteStatus, activeTab, bookToDelete,
                 showDestroyConfirm, destroyStatus, sessionStorage, tasks, srcLoads,
                 dstLoads, destroys, gw,
                 viewVars>>

\* ---- search, filter, sort and page controls

\* SearchBar, FilterControls and PaginationControls are rendered on the source
\* tab while books is not empty and on the destination tab while
\* destinationBooks is not empty
ControlsShown ==
  /\ ~ModalOpen
  /\ \/ activeTab = "books" /\ books # <<>>
     \/ activeTab = "manage" /\ destinationBooks # <<>>

\* what the handlers of the controls leave alone
controlsFrame ==
  <<books, destinationBooks, selectedBookIds, selectedDestinationBookIds, loading,
    syncProgress, deleteStatus, activeTab, bookToDelete, showDestroyConfirm,
    destroyStatus, sessionStorage, tasks, srcLoads, dstLoads, destroys, gw>>

\* texts typed into the search field
SearchTexts == {<<>>, <<65>>, <<121>>}

\* handleSearchChange (the clear button sets the value '')
handleSearchChange ==
  /\ ControlsShown
  /\ \E value \in SearchTexts \ {searchQuery} :
       /\ searchQuery' = value
       /\ ResetPageEffect([Render EXCEPT !.searchQuery = value])
       /\ RenderFilteredBooks([Render EXCEPT !.searchQuery = value])
  /\ error' = ""
  /\ success' = <<>>
  /\ finished' = <<>>
  /\ settled' = <<>>
  /\ UNCHANGED <<controlsFrame, sortOption, sortDirection, language, syncStatus>>

\* the entries of the sort select: value `${sortOption}-${sortDirection}`
SortEntries == SortOptions \X SortDirections

\* the select's onChange for the entry picked: it splits the value at '-' and
\* calls handleSortChange(option) with the option alone; handleSortChange
\* toggles the direction for the current option and else starts the new
\* option ascending
onSortSelect(r, entry) ==
  LET option == entry[1]
  IN IF r.sortOption = option
     THEN [r EXCEPT !.sortDirection = IF @ = "asc" THEN "desc" ELSE "asc"]
     ELSE [r EXCEPT !.sortOption = option, !.sortDirection = "asc"]

\* a pick in the sort select (a select reports a change of its value only)
handleSortChange ==
  /\ ControlsShown
  /\ \E entry \in SortEntries \ {<<sortOption, sortDirection>>} :
       LET r == onSortSelect(Render, entry)
       IN /\ sortOption' = r.sortOption
          /\ sortDirection' = r.sortDirection
          /\ ResetPageEffect(r)
          /\ RenderFilteredBooks(r)
  /\ error' = ""
  /\ success' = <<>>
  /\ finished' = <<>>
  /\ settled' = <<>>
  /\ UNCHANGED <<controlsFrame, searchQuery, language, syncStatus>>

\* onLanguageChange={setLanguage}
setLanguage ==
  /\ ControlsShown
  /\ \E value \in Languages \ {language} :
       /\ language' = value
       /\ ResetPageEffect([Render EXCEPT !.language = value])
       /\ RenderFilteredBooks([Render EXCEPT !.language = value])
  /\ error' = ""
  /\ success' = <<>>
  /\ finished' = <<>>
  /\ settled' = <<>>
  /\ UNCHANGED <<controlsFrame, searchQuery, sortOption, sortDirection, syncStatus>>

\* onSyncStatusChange={setSyncStatus}
setSyncStatus ==
  /\ ControlsShown
  /\ \E value \in SyncStatuses \ {syncStatus} :
       /\ syncStatus' = value
       /\ ResetPageEffect([Render EXCEPT !.syncStatus = value])
       /\ RenderFilteredBooks([Render EXCEPT !.syncStatus = value])
  /\ error' = ""
  /\ success' = <<>>
  /\ finished' = <<>>
  /\ settled' = <<>>
  /\ UNCHANGED <<controlsFrame, searchQuery, sortOption, sortDirection, language>>

\* PaginationControls.getPageNumbers
getPageNumbers(page, pages) ==
  IF pages <= 5 THEN 1..pages
  ELSE IF page <= 3 THEN 1..5
  ELSE IF page >= pages - 2 THEN (pages - 4)..pages
  ELSE (page - 2)..(page + 2)

\* the pages the enabled buttons of PaginationControls lead to: first and
\* previous unless on page 1, the numbered buttons, next and last unless on
\* the last page
PageButtons(page, pages) ==
  getPageNumbers(page, pages)
    \cup (IF page = 1 THEN {} ELSE {1, page - 1})
    \cup (IF page = pages THEN {} ELSE {page + 1, pages})

\* handlePageChange; PaginationControls renders nothing for a single page
handlePageChange ==
  /\ ControlsShown
  /\ LET pages == IF activeTab = "books" THEN totalPages ELSE totalDestinationPages
     IN /\ pages > 1
        /\ \E page \in PageButtons(currentPage, pages) \ {currentPage} :
             /\ page <= MaxPage
             /\ currentPage' = page
  /\ error' = ""
  /\ success' = <<>>
  /\ finished' = <<>>
  /\ settled' = <<>>
  /\ UNCHANGED <<controlsFrame, searchQuery, sortOption, sortDirection, language,
                 syncStatus, filteredBooks>>

\* ---- the gateway, one call at a time under observation

\* gw: the call observed (op), the error its try block caught (cause), the
\* error that left the method (thrown) and the request it handed to apiClient
\* (request)
\* and saved, the configuration last handed to saveConfig
GwIdle ==
  [op |-> "", phase |-> "idle", cause |-> <<>>, thrown |-> <<>>, request |-> <<>>,
   saved |-> <<>>]

\* the configuration form saves any six strings; the observation starts anew
gatewaySaveConfig ==
  /\ \E config \in Configs :
       /\ sessionStorage' = saveConfig(config)
       /\ gw' = [GwIdle EXCEPT !.saved = <<config>>]
  /\ UNCHANGED <<uiVars, netVars, viewVars, finished, settled>>

\* a gateway method from its call to its await, or to the error leaving its
\* catch block (catch (error) { this.handleError(error) })
gatewayCall ==
  /\ gw.phase # "sent"
  /\ \E op \in GatewayOps, id \in BookIds :
       LET r == Invoke(op, sessionStorage, id) IN
       gw' = IF r.thrown # <<>>
             THEN [op |-> op, phase |-> "failed",
                   cause |-> r.thrown, thrown |-> <<handleError(r.thrown[1])>>,
                   request |-> <<>>, saved |-> gw.saved]
             ELSE [op |-> op, phase |-> "sent", cause |-> <<>>, thrown |-> <<>>,
                   request |-> r.request, saved |-> gw.saved]
  /\ UNCHANGED <<uiVars, netVars, viewVars, finished, settled, sessionStorage>>

\* the awaited request resolves: return response.data
gatewayRequestResolves ==
  /\ gw.phase = "sent"
  /\ gw' = [gw EXCEPT !.phase = "returned"]
  /\ UNCHANGED <<uiVars, netVars, viewVars, finished, settled, sessionStorage>>

\* the awaited request rejects: the catch block hands the error to handleError
gatewayRequestRejects ==
  /\ gw.phase = "sent"
  /\ \E e \in AxiosErrors :
       gw' = [gw EXCEPT !.phase = "failed", !.cause = <<e>>,
                        !.thrown = <<handleError(e)>>]
  /\ UNCHANGED <<uiVars, netVars, viewVars, finished, settled, sessionStorage>>

\* ---- the App specification

Init ==
  /\ books = <<>> /\ destinationBooks = <<>>
  /\ selectedBookIds = <<>> /\ selectedDestinationBookIds = <<>>
  /\ loading = FALSE /\ error = "" /\ success = <<>>
  /\ syncProgress = EmptyMap /\ deleteStatus = EmptyMap
  /\ activeTab = "books" /\ bookToDelete = "null"
  /\ showDestroyConfirm = FALSE /\ destroyStatus = ""
  /\ sessionStorage = <<>>
  /\ tasks = <<>>
  /\ srcLoads = <<>> /\ dstLoads = <<>> /\ destroys = 0
  /\ searchQuery = <<>> /\ currentPage = 1
  /\ sortOption = "name" /\ sortDirection = "asc"
  /\ language = "all" /\ syncStatus = "all"
  /\ filteredBooks = <<>>
  /\ finished = <<>>
  /\ settled = <<>>
  /\ gw = GwIdle

Next ==
  \/ handleSyncEmpty \/ handleSync \/ syncBookResolves \/ syncBookRejects
  \/ clearSyncStatus
  \/ loadBooks \/ loadBooksResolves \/ loadBooksRejects
  \/ handleBookSelection \/ handleSelectAll
  \/ loadDestinationBooks \/ loadDestinationBooksResolves \/ loadDestinationBooksRejects
  \/ handleTabChange
  \/ handleDestinationBookSelection \/ handleSelectAllDestination
  \/ handleDeleteMultipleBooksEmpty \/ handleDeleteMultipleBooks \/ cancelDeleteBook
  \/ confirmDeleteMultipleBooksEmpty \/ confirmDeleteMultipleBooks
  \/ deleteDestinationBookResolves \/ deleteDestinationBookRejects
  \/ openDestroyConfirm \/ cancelDestroy \/ handleDestroy
  \/ destroyResolves \/ destroyRejects
  \/ handleConfigUpdate
  \/ handleSearchChange \/ handleSortChange \/ setLanguage \/ setSyncStatus
  \/ handlePageChange

Spec == Init /\ [][Next]_vars

\* ---- scenarios: the App with an operator who uses part of it

\* The operator stays on the source and configuration tabs: loads, selection,
\* sync batches and configuration saves; the batch handlers are also called
\* with nothing selected.
handleTabChangeAwayFromManage == handleTabChange /\ activeTab' # "manage"

NextSync ==
  \/ handleSyncEmpty \/ handleSync \/ syncBookResolves \/ syncBookRejects
  \/ loadBooks \/ loadBooksResolves \/ loadBooksRejects
  \/ handleBookSelection \/ handleSelectAll
  \/ handleTabChangeAwayFromManage
  \/ handleConfigUpdate
  \/ handleDeleteMultipleBooksEmpty \/ confirmDeleteMultipleBooksEmpty

SpecSync == Init /\ [][NextSync]_vars

\* The same scenario with the Clear Status button in use
NextStatus == NextSync \/ clearSyncStatus

SpecStatus == Init /\ [][NextStatus]_vars

\* The same scenario when every issued request is answered in the end
SpecSyncFair ==
  /\ SpecSync
  /\ WF_vars(syncBookResolves \/ syncBookRejects)
  /\ WF_vars(loadBooksResolves \/ loadBooksRejects)

\* The operator saves a complete configuration and moves between all three
\* tabs while sync batches run; the destination backend is down, so every
\* destination list request fails.
saveFullConfig == handleConfigUpdate /\ sessionStorage' = saveConfig(FullConfig)

\* one list request of a kind at a time in this scenario; the source answers
\* with all its books, and the destination has no list to answer
loadBooksAlone ==
  /\ loadBooks
  /\ Len(srcLoads') <= 1
  /\ \A i \in 1..Len(srcLoads') : srcLoads'[i].response = [j \in 1..NumBooks |-> j]
handleTabChangeDestinationDown ==
  /\ handleTabChange
  /\ Len(dstLoads') <= 1
  /\ \A i \in 1..Len(dstLoads') : dstLoads'[i].response = <<>>

NextTabs ==
  \/ handleSync \/ syncBookResolves \/ syncBookRejects
  \/ loadBooksAlone \/ loadBooksResolves \/ loadBooksRejects
  \/ handleBookSelection \/ handleSelectAll
  \/ handleTabChangeDestinationDown \/ loadDestinationBooksRejects
  \/ saveFullConfig

SpecTabs == Init /\ [][NextTabs]_vars

\* The operator saves a complete configuration and works on the destination
\* tab: loads, selection and delete batches, confirming a dialog once.
handleTabChangeAwayFromBooks == handleTabChange /\ activeTab' # "books"
confirmDeleteOnce == confirmDeleteMultipleBooks /\ tasks = <<>>
\* one destination list request at a time in this scenario
loadDestinationBooksAlone == loadDestinationBooks /\ Len(dstLoads') <= 1
handleTabChangeAlone == handleTabChangeAwayFromBooks /\ Len(dstLoads') <= 1

NextManage ==
  \/ loadDestinationBooksAlone \/ loadDestinationBooksResolves \/ loadDestinationBooksRejects
  \/ handleTabChangeAlone
  \/ handleDestinationBookSelection \/ handleSelectAllDestination
  \/ handleDeleteMultipleBooks \/ cancelDeleteBook
  \/ confirmDeleteOnce
  \/ deleteDestinationBookResolves \/ deleteDestinationBookRejects
  \/ saveFullConfig

SpecManage == Init /\ [][NextManage]_vars

\* The gateway alone: configurations are saved and its methods are called.
NextGateway ==
  \/ gatewaySaveConfig \/ gatewayCall \/ gatewayRequestResolves \/ gatewayRequestRejects

SpecGateway == Init /\ [][NextGateway]_vars

\* Pagination: a complete configuration has been saved and the source list
\* has been loaded; the source instance answers a list request with one page
\* of books, one more, or LongList books.  The operator reloads the list and
\* uses the search, filter, sort and page controls.
LongLists == {[i \in 1..k |-> i] : k \in {ITEMS_PER_PAGE, ITEMS_PER_PAGE + 1, LongList}}

InitPages ==
  /\ books \in LongLists /\ destinationBooks = <<>>
  /\ selectedBookIds = <<>> /\ selectedDestinationBookIds = <<>>
  /\ loading = FALSE /\ error = "" /\ success = <<>>
  /\ syncProgress = EmptyMap /\ deleteStatus = EmptyMap
  /\ activeTab = "books" /\ bookToDelete = "null"
  /\ showDestroyConfirm = FALSE /\ destroyStatus = ""
  /\ sessionStorage = saveConfig(FullConfig)
  /\ tasks = <<>>
  /\ srcLoads = <<>> /\ dstLoads = <<>> /\ destroys = 0
  /\ searchQuery = <<>> /\ currentPage = 1
  /\ sortOption = "name" /\ sortDirection = "asc"
  /\ language = "all" /\ syncStatus = "all"
  /\ filteredBooks = FilterAndSortBooks(Render)
  /\ finished = <<>>
  /\ settled = <<>>
  /\ gw = GwIdle

NextPages ==
  \/ handleSearchChange \/ handleSortChange \/ setLanguage \/ setSyncStatus
  \/ handlePageChange

SpecPages == InitPages /\ [][NextPages]_vars

\* The operator pages through a long source list and reloads it; the source
\* meanwhile holds fewer books.
NextPageReload ==
  \/ handlePageChange \/ handleSearchChange
  \/ loadBooks \/ loadBooksResolves \/ loadBooksRejects

SpecPageReload == InitPages /\ [][NextPageReload]_vars

\* Filters: a complete configuration has been saved, both lists have been
\* loaded and sync batches have run, which left any of the four status values
\* for any of the listed books.  The operator uses the search field and the
\* two filters of the source tab.
SyncStatusValues == {"Pending", "Syncing...", "Completed", "Failed"}
StatusMaps(ids) == UNION {[keys -> SyncStatusValues] : keys \in SUBSET Range(ids)}

InitFilters ==
  /\ books \in BackendLists \ {<<>>} /\ destinationBooks \in BackendLists
  /\ selectedBookIds = <<>> /\ selectedDestinationBookIds = <<>>
  /\ loading = FALSE /\ error = "" /\ success = <<>>
  /\ syncProgress \in StatusMaps(books) /\ deleteStatus = EmptyMap
  /\ activeTab = "books" /\ bookToDelete = "null"
  /\ showDestroyConfirm = FALSE /\ destroyStatus = ""
  /\ sessionStorage = saveConfig(FullConfig)
  /\ tasks = <<>>
  /\ srcLoads = <<>> /\ dstLoads = <<>> /\ destroys = 0
  /\ searchQuery = <<>> /\ currentPage = 1
  /\ sortOption = "name" /\ sortDirection = "asc"
  /\ language = "all" /\ syncStatus = "all"
  /\ filteredBooks = FilterAndSortBooks(Render)
  /\ finished = <<>>
  /\ settled = <<>>
  /\ gw = GwIdle

NextFilters == handleSearchChange \/ setLanguage \/ setSyncStatus

SpecFilters == InitFilters /\ [][NextFilters]_vars

\* Sync batches seen through the filters: the operator saves a complete
\* configuration, loads the source list, selects books, runs sync batches and
\* uses the search field and the two filters while they run.
NextSyncView ==
  \/ saveFullConfig \/ handleTabChangeAwayFromManage
  \/ loadBooks \/ loadBooksResolves \/ loadBooksRejects
  \/ handleBookSelection
  \/ handleSync \/ syncBookResolves \/ syncBookRejects
  \/ handleSearchChange \/ setLanguage \/ setSyncStatus

SpecSyncView == Init /\ [][NextSyncView]_vars

\* The operator saves a complete configuration, moves between the tabs and
\* presses the load buttons; list requests of one kind overlap and complete in
\* any order.
NextLoads ==
  \/ saveFullConfig \/ handleTabChange
  \/ loadBooks \/ loadBooksResolves \/ loadBooksRejects
  \/ loadDestinationBooks \/ loadDestinationBooksResolves \/ loadDestinationBooksRejects

SpecLoads == Init /\ [][NextLoads]_vars

\* Bulk destroy: the operator saves a configuration, works on the
\* destination tab, selects books and opens, cancels and confirms the
\* destroy dialog.
NextDestroy ==
  \/ handleConfigUpdate \/ handleTabChangeAlone
  \/ loadDestinationBooksAlone \/ loadDestinationBooksResolves \/ loadDestinationBooksRejects
  \/ handleDestinationBookSelection
  \/ openDestroyConfirm \/ cancelDestroy \/ handleDestroy
  \/ destroyResolves \/ destroyRejects

SpecDestroy == Init /\ [][NextDestroy]_vars

\* ================================================================ claims

Terminal == {"Completed", "Deleted", "Failed"}

\* the status map a batch of this kind writes
MapOf(kind, sync, delete) == IF kind = "sync" THEN sync ELSE delete

\* position of id in the batch's identifier sequence
Pos(ids, id) == CHOOSE j \in 1..Len(ids) : ids[j] = id

\* identifiers whose operation the batch invoked, and those it invoked with success
Attempted(t) == {t.log[k][1] : k \in 1..Len(t.log)}
Succeeded(t) == {t.log[k][1] : k \in {n \in 1..Len(t.log) : t.log[n][2] \in {"Completed", "Deleted"}}}

\* C1: when a batch over a non-empty identifier set S returns, the status map
\* has exactly one entry per member of S and every entry is Completed/Deleted
\* or Failed, whatever list reloads and configuration changes came before.
C1_FinalStatusCoversBatch ==
  finished # <<>> =>
    LET t == finished[1]
        m == MapOf(t.kind, syncProgress, deleteStatus)
    IN /\ DOMAIN m = Range(t.ids)
       /\ \A id \in Range(t.ids) : m[id] \in Terminal

\* C2: at every moment at most one single-item request issued by a batch is in
\* flight (each suspended batch run awaits exactly one such request).
C2_OneBatchRequestInFlight == Len(tasks) <= 1

\* C3: in the batch that just returned, every identifier after a failed one was
\* still attempted, every identifier whose operation succeeded shows
\* Completed/Deleted, and no identifier's operation was invoked twice.
C3_FailureIsolated ==
  finished # <<>> =>
    LET t == finished[1]
        m == MapOf(t.kind, syncProgress, deleteStatus)
    IN /\ \A k \in 1..Len(t.log) :
            t.log[k][2] = "Failed" =>
              \A j \in 1..Len(t.ids) :
                j > Pos(t.ids, t.log[k][1]) => t.ids[j] \in Attempted(t)
       /\ \A k \in 1..Len(t.log) :
            t.log[k][2] # "Failed" => Get(m, t.log[k][1]) = t.log[k][2]
       /\ \A k1, k2 \in 1..Len(t.log) : t.log[k1][1] = t.log[k2][1] => k1 = k2

Rank(status) ==
  CASE status = "Pending" -> 1
    [] status \in {"Syncing...", "Deleting..."} -> 2
    [] status \in Terminal -> 3
    [] OTHER -> 0

\* while the operation of ids[idx] is awaited, every identifier before it is terminal
PrecedingTerminal(ts, sync, delete) ==
  \A i \in 1..Len(ts) :
    \A j \in 1..(ts[i].idx - 1) :
      Get(MapOf(ts[i].kind, sync, delete), ts[i].ids[j]) \in Terminal

\* the operations were invoked in the order of the identifier sequence
LogInOrder(t) ==
  \A k1, k2 \in 1..Len(t.log) :
    k1 < k2 => Pos(t.ids, t.log[k1][1]) < Pos(t.ids, t.log[k2][1])

\* C4: a batch invokes its operations in selection order, the operation of an
\* identifier only once every identifier before it is terminal, and while the
\* batch runs no identifier's status moves backwards (Pending, in progress,
\* terminal).
C4_InOrderOneAtATime ==
  [][ /\ PrecedingTerminal(tasks', syncProgress', deleteStatus')
      /\ \A i \in 1..Len(tasks') : LogInOrder(tasks'[i])
      /\ finished' # <<>> => LogInOrder(finished'[1])
      /\ tasks # <<>> =>
           \A id \in Range(tasks[1].ids) :
             Rank(Get(MapOf(tasks[1].kind, syncProgress', deleteStatus'), id))
               >= Rank(Get(MapOf(tasks[1].kind, syncProgress, deleteStatus), id))
    ]_vars

\* C5: a sync batch or a delete batch started with nothing selected is rejected
\* with the select-at-least-one message (the confirm handler just returns); the
\* status maps, the busy flag and both lists stay as they were and no request
\* is issued.
C5_EmptySelectionRejected ==
  [][ /\ handleSyncEmpty => error' = "Please select at least one book to sync"
      /\ handleDeleteMultipleBooksEmpty => error' = "Please select at least one book to delete"
      /\ (handleSyncEmpty \/ handleDeleteMultipleBooksEmpty \/ confirmDeleteMultipleBooksEmpty)
           => /\ UNCHANGED <<syncProgress, deleteStatus, loading, books, destinationBooks>>
              /\ UNCHANGED netVars
              /\ success' = <<>>
    ]_vars

\* C5 witness: the sync handler rejected an empty selection while a list was
\* loaded and the busy flag was set
C5_Witness ==
  /\ error = "Please select at least one book to sync"
  /\ Len(selectedBookIds) = 0 /\ Len(books) > 0 /\ loading

\* C6: the step in which a delete batch returns takes out of the destination
\* list exactly the books whose delete succeeded in that batch: a book whose
\* delete failed stays and a book whose delete succeeded goes, whatever
\* statuses earlier deletes left behind.  (The list before that step is the
\* list the batch started from unless it was reloaded in between.)
C6_ListMinusDeleted ==
  [][ (finished' # <<>> /\ finished'[1].kind = "delete") =>
        destinationBooks' =
          FilterSeq(destinationBooks, Range(destinationBooks) \ Succeeded(finished'[1]))
    ]_vars

\* C7: when a batch returns, the reported succeeded count is the number of its
\* identifiers whose status is Completed/Deleted, the reported failed count the
\* number whose status is Failed, and the all-succeeded summary is given
\* exactly when no identifier of the batch is Failed.
C7_CountsMatchStatuses ==
  finished # <<>> =>
    LET t == finished[1]
        m == MapOf(t.kind, syncProgress, deleteStatus)
        done == {id \in Range(t.ids) : Get(m, id) \in {"Completed", "Deleted"}}
        failed == {id \in Range(t.ids) : Get(m, id) = "Failed"}
    IN /\ success # <<>>
       /\ success[1].completed = Cardinality(done)
       /\ success[1].failed = Cardinality(failed)
       /\ success[1].all <=> failed = {}

\* the fields an operation needs, as the claim lists them
RequiredFields(op) ==
  CASE op \in {"listBooks", "getBook", "verifyCredentials", "getRawBooks"} -> SourceFields
    [] op \in {"listDestinationBooks", "deleteDestinationBook"} -> DestinationFields
    [] op \in {"syncBook", "syncBooks"} -> SourceFields \cup DestinationFields

IncompleteMessages ==
  {<<"Source credentials are incomplete">>, <<"Destination credentials are incomplete">>,
   <<"Source or destination credentials are incomplete">>}

\* C8: a gateway call with no stored configuration fails with 'Configuration is
\* missing', one with a blank required field fails with a credentials-incomplete
\* error, in both cases without a request; with every required field filled
\* (whatever the other fields hold) the request is sent.
C8_CredentialsCheckedBeforeSending ==
  gw.phase # "idle" =>
    LET required == RequiredFields(gw.op) IN
    /\ sessionStorage = <<>> =>
         /\ gw.request = <<>> /\ gw.thrown # <<>>
         /\ gw.thrown[1].message = <<"Configuration is missing">>
    /\ (sessionStorage # <<>> /\ \E f \in required : getConfig(sessionStorage)[1][f] = "") =>
         /\ gw.request = <<>> /\ gw.thrown # <<>>
         /\ gw.thrown[1].message \in IncompleteMessages
    /\ (sessionStorage # <<>> /\ \A f \in required : getConfig(sessionStorage)[1][f] # "") =>
         gw.request # <<>>

\* C8 witness: a destination delete refused for a blank destination token id
\* although the source fields are complete
C8_Witness ==
  /\ gw.op = "deleteDestinationBook" /\ gw.phase = "failed" /\ gw.request = <<>>
  /\ sessionStorage # <<>>
  /\ \A f \in SourceFields : getConfig(sessionStorage)[1][f] # ""
  /\ getConfig(sessionStorage)[1].destinationTokenId = ""
  /\ getConfig(sessionStorage)[1].destinationBaseUrl # ""

\* the shapes an error has, read off its message
Shapes(e) ==
  {s \in {"ConfigurationMissing", "CredentialsIncomplete", "NoResponse", "RequestError",
          "ApiError"} :
     CASE s = "ConfigurationMissing" -> e.message = <<"Configuration is missing">>
       [] s = "CredentialsIncomplete" -> e.message \in IncompleteMessages
       [] s = "NoResponse" -> e.message = <<"No response received from server">>
       [] s = "RequestError" -> Len(e.message) = 2 /\ e.message[1] = "Request Error: "
       [] s = "ApiError" ->
            Len(e.message) = 4 /\ e.message[1] = "API Error: " /\ e.message[3] = " - "}

\* the first field that is present and not empty, else the fallback
RECURSIVE FirstNonEmpty(_, _)
FirstNonEmpty(fields, fallback) ==
  IF fields = <<>> THEN fallback
  ELSE IF Head(fields) \notin {"", "undefined"} THEN Head(fields)
       ELSE FirstNonEmpty(Tail(fields), fallback)

DestinationHeaderNames == {"X-Destination-Url", "X-Destination-Token", "X-Destination-Token-Id"}

\* C10: the request verifyCredentials sends carries the three destination
\* headers when all three destination fields are non-empty and none of them
\* otherwise; the three source headers are always there.
C10_VerifyHeaders ==
  (gw.op = "verifyCredentials" /\ gw.request # <<>>) =>
    LET c == getConfig(sessionStorage)[1]
        h == gw.request[1].headers
    IN /\ IF \A f \in DestinationFields : c[f] # ""
          THEN /\ DestinationHeaderNames \subseteq DOMAIN h
               /\ h["X-Destination-Url"] = c.destinationBaseUrl
               /\ h["X-Destination-Token"] = c.destinationTokenSecret
               /\ h["X-Destination-Token-Id"] = c.destinationTokenId
          ELSE DestinationHeaderNames \cap DOMAIN h = {}
       /\ {"X-Source-Url", "X-Source-Token", "X-Source-Token-Id"} \subseteq DOMAIN h
       /\ h["X-Source-Url"] = c.sourceBaseUrl
       /\ h["X-Source-Token"] = c.sourceTokenSecret
       /\ h["X-Source-Token-Id"] = c.sourceTokenId

\* C11: getConfig returns null before any save and afterwards a configuration
\* equal to the one saved last; saving sends no request.
C11_SaveThenGet ==
  /\ gw.saved = <<>> => getConfig(sessionStorage) = <<>>
  /\ gw.saved # <<>> => getConfig(sessionStorage) = gw.saved
  /\ gw.op = "" => gw.request = <<>>

\* C11 witness: a configuration with blank and filled fields is the one saved
\* last and no gateway method has been called since
C11_Witness ==
  /\ gw.saved # <<>> /\ gw.op = ""
  /\ getConfig(sessionStorage)[1].sourceTokenId = "src-id"
  /\ getConfig(sessionStorage)[1].sourceTokenSecret = ""
  /\ getConfig(sessionStorage)[1].destinationBaseUrl = "dst-url"

\* C10 witness: verifyCredentials sent its request with two of the three
\* destination fields filled, and the request has no destination header
C10_Witness ==
  /\ gw.op = "verifyCredentials" /\ gw.request # <<>>
  /\ getConfig(sessionStorage)[1].destinationBaseUrl # "" /\ getConfig(sessionStorage)[1].destinationTokenId # ""
  /\ getConfig(sessionStorage)[1].destinationTokenSecret = ""
  /\ DestinationHeaderNames \cap DOMAIN gw.request[1].headers = {}

\* C12: whenever the search text, the language filter, the sync-status
\* filter, the sort key or the sort direction changes, the current page is 1
\* once the change is processed.
C12_FilterChangeResetsPage ==
  [][<<searchQuery, language, syncStatus, sortOption, sortDirection>>'
        # <<searchQuery, language, syncStatus, sortOption, sortDirection>>
     => currentPage' = 1]_vars

\* C12 witness: a list of more than one page is shown from page 1 with the
\* sync-status filter, the sort key and the sort direction away from their
\* initial values
C12_Witness ==
  /\ currentPage = 1 /\ totalPages > 1
  /\ syncStatus = "not-synced" /\ sortOption = "updated_at" /\ sortDirection = "desc"

\* the claims' reading of the three sync states of a source book
InDestination(book) ==
  \E id \in Range(destinationBooks) : DestinationBook(id).name = book.name
NonTerminal(book) == Get(syncProgress, book.id) \in {"Pending", "Syncing..."}

\* C13: a source book matches 'in-destination' iff a destination book has
\* the identical name, 'syncing' iff its status entry is Pending or Syncing
\* (not Completed, not Failed), and 'not-synced' iff neither; a finished book
\* does not match 'syncing'.
C13_SyncStatusMatch ==
  \A id \in Range(books) :
     LET book == SourceBook(id)
         shown == matchesSyncStatus(Render, book)
     IN /\ syncStatus = "in-destination" => (shown <=> InDestination(book))
        /\ syncStatus = "syncing" => (shown <=> NonTerminal(book))
        /\ syncStatus = "not-synced" =>
             (shown <=> ~InDestination(book) /\ ~NonTerminal(book))

\* number of source books the sync-status filter lets through when set to status
Passing(status) ==
  Cardinality({i \in 1..Len(books) :
                 matchesSyncStatus([Render EXCEPT !.syncStatus = status],
                                   SourceBook(books[i]))})

\* C14: each of the three label counts equals the number of source books that
\* satisfy the predicate the filter uses for that label; with an empty search
\* and language 'all', the filtered list has as many books as the label of
\* the selected filter says.
C14_LabelCountsMatchFilter ==
  /\ inDestinationCount = Passing("in-destination")
  /\ syncingCount = Passing("syncing")
  /\ notSyncedCount = Passing("not-synced")
  /\ searchQuery = <<>> /\ language = "all" =>
       /\ syncStatus = "in-destination" => Len(filteredBooks) = inDestinationCount
       /\ syncStatus = "syncing" => Len(filteredBooks) = syncingCount
       /\ syncStatus = "not-synced" => Len(filteredBooks) = notSyncedCount

\* C15: a book is in the filtered source list iff it passes the text match,
\* the language match and the sync-status match, and in the filtered
\* destination list iff it passes the text match and the language match; with
\* an empty search, language 'all' and sync status 'all' the filtered list has
\* the entities and the count of the raw list.
C15_FilteredListMembership ==
  /\ \A id \in Range(books) :
        SourceBook(id) \in Range(filteredBooks)
          <=> /\ matchesSearch(Render, SourceBook(id))
              /\ matchesLanguage(Render, SourceBook(id))
              /\ matchesSyncStatus(Render, SourceBook(id))
  /\ Range(filteredBooks) \subseteq {SourceBook(id) : id \in Range(books)}
  /\ \A id \in Range(destinationBooks) :
        DestinationBook(id) \in Range(filteredDestinationBooks)
          <=> /\ matchesSearch(Render, DestinationBook(id))
              /\ matchesLanguage(Render, DestinationBook(id))
  /\ Range(filteredDestinationBooks)
       \subseteq {DestinationBook(id) : id \in Range(destinationBooks)}
  /\ searchQuery = <<>> /\ language = "all" /\ syncStatus = "all" =>
       /\ Range(filteredBooks) = {SourceBook(id) : id \in Range(books)}
       /\ Len(filteredBooks) = Len(books)

\* the code units of the detector's ranges: U+3040-30FF, U+3400-4DBF,
\* U+4E00-9FFF, U+F900-FAFF, U+FF66-FF9F
InCJKRanges(c) ==
  \/ 12352 <= c /\ c <= 12543
  \/ 13312 <= c /\ c <= 19903
  \/ 19968 <= c /\ c <= 40959
  \/ 63744 <= c /\ c <= 64255
  \/ 65382 <= c /\ c <= 65439
HasCJK(name) == \E i \in 1..Len(name) : InCJKRanges(name[i])

\* C16: the language filter 'all' matches every book, 'chinese' matches a book
\* iff its name has at least one character of the detector's CJK ranges,
\* 'english' iff it has none; every book matches exactly one of 'english' and
\* 'chinese'.
C16_LanguageMatch ==
  \A id \in Range(books) \cup Range(destinationBooks) :
    \A book \in {SourceBook(id), DestinationBook(id)} :
       /\ language = "all" => matchesLanguage(Render, book)
       /\ language = "chinese" => (matchesLanguage(Render, book) <=> HasCJK(book.name))
       /\ language = "english" => (matchesLanguage(Render, book) <=> ~HasCJK(book.name))
       /\ matchesLanguage([Render EXCEPT !.language = "english"], book)
            # matchesLanguage([Render EXCEPT !.language = "chinese"], book)

\* C16 witness: with the filter 'chinese' the list shows the book named by
\* the first code unit of the last range and a book with a mixed name, and
\* not the book named by the code unit just below that range
C16_Witness ==
  /\ language = "chinese" /\ searchQuery = <<>> /\ syncStatus = "all"
  /\ \E i \in 1..Len(filteredBooks) : filteredBooks[i].name = <<65382>>
  /\ \E i \in 1..Len(filteredBooks) : filteredBooks[i].name = <<97, 12354>>
  /\ \E id \in Range(books) : SourceBook(id).name = <<65381>>
  /\ \A i \in 1..Len(filteredBooks) : filteredBooks[i].name # <<65381>>

\* pages 1..k of the filtered source list, one after the other
RECURSIVE PagesUpTo(_)
PagesUpTo(k) == IF k = 0 THEN <<>> ELSE PagesUpTo(k - 1) \o PageOf(filteredBooks, k)

\* C17: with page size 15 the page count of a filtered list of n books is
\* max(1, ceil(n/15)); page p holds the books at positions (p-1)*15 .. p*15-1
\* of the filtered sorted list, at most 15 of them; pages 1..pageCount one
\* after the other are the filtered sorted list; 16 books give 2 pages, the
\* second with 1 book.
C17_Pagination ==
  LET n == Len(filteredBooks)
  IN /\ totalPages >= 1
     /\ totalPages * 15 >= n
     /\ totalPages > 1 => (totalPages - 1) * 15 < n
     /\ \A p \in 1..totalPages :
          LET page == PageOf(filteredBooks, p)
              first == (p - 1) * 15
          IN /\ Len(page) <= 15
             /\ Len(page) = (IF p * 15 <= n THEN 15 ELSE n - first)
             /\ \A k \in 1..Len(page) : page[k] = filteredBooks[first + k]
     /\ PagesUpTo(totalPages) = filteredBooks
     /\ currentPage <= totalPages => currentBooks = PageOf(filteredBooks, currentPage)
     /\ n = 16 => totalPages = 2 /\ Len(PageOf(filteredBooks, 2)) = 1

\* C17 witness: a list of 16 books is on its second page, which shows the
\* one book that is last in the list
C17_Witness ==
  /\ Len(filteredBooks) = 16 /\ currentPage = 2
  /\ currentBooks = <<filteredBooks[16]>>

\* how the keys of two books compare under the selected sort key: negative,
\* zero or positive
CompareKeys(a, b) ==
  IF sortOption = "created_at" THEN getTime(a.created_at) - getTime(b.created_at)
  ELSE IF sortOption = "updated_at" THEN getTime(a.updated_at) - getTime(b.updated_at)
  ELSE localeCompare(a.name, b.name)

\* the list the sort is applied to: the source books that pass the filters,
\* in the order of the source list
FilteredUnsorted ==
  SelectSeq(SourceList(Render),
            LAMBDA book : /\ matchesSearch(Render, book) /\ matchesLanguage(Render, book)
                          /\ matchesSyncStatus(Render, book))

\* C18: the sorted list is a permutation of the filtered list, ordered by the
\* selected key (name, creation time, update time), non-decreasing for 'asc'
\* and non-increasing for 'desc'; books with equal keys keep their order from
\* the input in both directions.
C18_SortedPermutation ==
  LET n == Len(filteredBooks)
  IN /\ n = Len(FilteredUnsorted)
     /\ Range(filteredBooks) = Range(FilteredUnsorted)
     /\ \A i, j \in 1..n :
          i < j =>
            LET c == CompareKeys(filteredBooks[i], filteredBooks[j])
            IN /\ sortDirection = "asc" => c <= 0
               /\ sortDirection = "desc" => c >= 0
               /\ c = 0 => Pos(books, filteredBooks[i].id) < Pos(books, filteredBooks[j].id)

\* C18 witness: a list of more than one page is sorted by creation time,
\* newest first; it holds books of different dates and books of one date
C18_Witness ==
  /\ sortOption = "created_at" /\ sortDirection = "desc"
  /\ Len(filteredBooks) > ITEMS_PER_PAGE
  /\ filteredBooks[1].created_at # filteredBooks[Len(filteredBooks)].created_at
  /\ filteredBooks[1].created_at = filteredBooks[2].created_at
  /\ filteredBooks[1].id < filteredBooks[2].id

\* C19: a bulk-destroy request is sent only by confirming in the destroy
\* dialog: the dialog is open before the step that sends it and stays open in
\* that step; opening the dialog and cancelling it send nothing.
C19_DestroyOnlyOnConfirm ==
  [][/\ destroys' > destroys => showDestroyConfirm /\ showDestroyConfirm'
     /\ (~showDestroyConfirm /\ showDestroyConfirm') => destroys' = destroys
     /\ (showDestroyConfirm /\ ~showDestroyConfirm') => destroys' <= destroys]_vars

\* C19 witness: the dialog was confirmed; the request is in flight and the
\* dialog is still open
C19_Witness ==
  destroys > 0 /\ showDestroyConfirm /\ destroyStatus = "Destroying..."

\* C20: a list request that completes successfully installs its own response
\* as the list, whether or not a request started after it completed before
\* it, so after overlapping loads the list is the response of the load that
\* completed last; a list request that fails leaves the list as it was.
C20_LastCompletedLoadWins ==
  [][ settled' # <<>> =>
        LET request == settled'[1]
        IN /\ request.kind = "source" =>
                books' = IF request.ok THEN request.response ELSE books
           /\ request.kind = "destination" =>
                destinationBooks' = IF request.ok THEN request.response
                                    ELSE destinationBooks ]_vars

\* C20 witness: of two overlapping destination list requests the one started
\* first completed last, and the list shows its response
C20_Witness ==
  /\ settled # <<>>
  /\ settled[1].kind = "destination" /\ settled[1].ok /\ settled[1].overtaken
  /\ dstLoads = <<>>
  /\ destinationBooks = settled[1].response
  /\ Len(destinationBooks) > 0

\* C21: the filtered source list on display is the filter-and-sort pipeline
\* applied to the current inputs (list, destination list, status map, search
\* text, language, sync-status filter, sort), also after a running batch has
\* updated the status map.
C21_FilteredListIsCurrent == filteredBooks = FilterAndSortBooks(Render)

\* the batches a selection can start: sequences of distinct identifiers
BatchIds ==
  {ids \in UNION {[1..n -> BookIds] : n \in 1..NumBooks} :
     \A i, j \in 1..Len(ids) : i # j => ids[i] # ids[j]}

\* the batch over ids has returned: each of its identifiers was processed (its
\* operation was invoked and answered), the summary is out and the busy flag
\* is cleared
Completed(ids) ==
  /\ finished # <<>>
  /\ finished[1].ids = ids
  /\ Range(ids) \subseteq Attempted(finished[1])
  /\ success # <<>>
  /\ ~loading

\* C22: when every issued request is answered in the end, a started batch
\* runs to completion whatever the user does meanwhile: each of its
\* identifiers is processed, the summary is produced and the busy flag is
\* cleared.
C22_BatchRunsToCompletion ==
  \A ids \in BatchIds :
     (\E i \in 1..Len(tasks) : tasks[i].ids = ids) ~> Completed(ids)

\* (the part of C22 that is about returning: a batch in flight returns with
\* its summary and a cleared busy flag; which identifiers it processed is
\* left open)
BatchReturns == (tasks # <<>>) ~> (finished # <<>> /\ success # <<>> /\ ~loading)

\* the sync batch that starts in this step, if any: a new suspended run, or a
\* run that returned without suspending
StartedSync ==
  IF Len(tasks') = Len(tasks) + 1 /\ tasks'[Len(tasks')].kind = "sync"
  THEN <<tasks'[Len(tasks')]>>
  ELSE IF tasks' = tasks /\ finished' # <<>> /\ finished'[1].kind = "sync"
       THEN finished'
       ELSE <<>>

SyncRunning == \E i \in 1..Len(tasks) : tasks[i].kind = "sync"

C24_BusyWhileBatchRuns == tasks # <<>> => loading

\* C25: every selected identifier is the id of an entity of the list it was
\* selected from: the source selection within the source list, the
\* destination selection within the destination list.
C25_SelectionWithinList ==
  /\ Range(selectedBookIds) \subseteq Range(books)
  /\ Range(selectedDestinationBookIds) \subseteq Range(destinationBooks)

\* C26: while a list is on display the current page number is between 1 and
\* the page count of that list.
C26_PageWithinRange ==
  /\ activeTab = "books" => (1 <= currentPage /\ currentPage <= totalPages)
  /\ activeTab = "manage" => (1 <= currentPage /\ currentPage <= totalDestinationPages)

\* C27: a list request that was sent before a configuration update changed
\* the configuration and is answered after it does not put its entities into
\* the list: the list stays as the update and later loads left it.
C27_OutdatedLoadIgnored ==
  [][ (settled' # <<>> /\ settled'[1].stale) =>
        /\ settled'[1].kind = "source" => books' = books
        /\ settled'[1].kind = "destination" => destinationBooks' = destinationBooks ]_vars

\* C28: picking an entry '<key>-<direction>' of the sort control leaves the
\* sort state at that key and that direction, from every sort state and for
\* every entry that differs from the one shown.
C28_SortPickIsExact ==
  \A entry \in SortEntries \ {<<sortOption, sortDirection>>} :
     LET r == onSortSelect(Render, entry)
     IN r.sortOption = entry[1] /\ r.sortDirection = entry[2]

\* how many of the three label counts count this book
TimesCounted(book) ==
    (IF countsInDestination(Render, book) THEN 1 ELSE 0)
  + (IF countsSyncing(Render, book) THEN 1 ELSE 0)
  + (IF countsNotSynced(Render, book) THEN 1 ELSE 0)

\* C29: every book of the source list is counted by exactly one of the
\* in-destination, syncing and not-synced counts, so the three counts add up
\* to the length of the source list.
C29_CountsPartitionList ==
  /\ \A id \in Range(books) : TimesCounted(SourceBook(id)) = 1
  /\ inDestinationCount + syncingCount + notSyncedCount = Len(books)

\* a destroy ends in this step: its request is answered, or the gateway
\* threw before sending one
DestroyEnds ==
  \/ destroys' < destroys
  \/ error' = "Failed to destroy books. Please check the Spring Boot API."

\* C30: a destroy that succeeds leaves the destination list and the
\* destination selection empty, the destroy status Destroyed and the
\* confirmation dialog closed; one that fails leaves list and selection as
\* they were, the destroy status Failed and an error on display; either way
\* the busy flag is false afterwards.
C30_DestroyOutcome ==
  [][ DestroyEnds =>
        /\ ~loading'
        /\ \/ /\ destroyStatus' = "Destroyed"
              /\ destinationBooks' = <<>>
              /\ selectedDestinationBookIds' = <<>>
              /\ ~showDestroyConfirm'
              /\ error' = ""
           \/ /\ destroyStatus' = "Failed"
              /\ destinationBooks' = destinationBooks
              /\ selectedDestinationBookIds' = selectedDestinationBookIds
              /\ error' # "" ]_vars

\* C30 witness: a destroy request failed while books were listed and
\* selected; they still are
C30_Witness ==
  /\ destroyStatus = "Failed"
  /\ error = "Failed to destroy books. Please check the Spring Boot API."
  /\ Len(destinationBooks) > 0 /\ Len(selectedDestinationBookIds) > 0
  /\ ~loading /\ destroys = 0
  /\ getConfig(sessionStorage) = <<FullConfig>>

====
